---- MODULE Spec2Model ----
(***************************************************************************)
(* Media reference reorganization and migration pipeline of heirlooms.     *)
(*                                                                         *)
(* The database (artifacts, user_media, artifact_media), the object store  *)
(* and the operations that move blobs and rewrite the references to them:  *)
(* reorganizeArtifactMedia (lib/actions/media-reorganize.ts) and the batch *)
(* scripts (migrate-temp-media, migrate-cloudinary-to-supabase,            *)
(* cleanup-orphaned-media, backfill-media-derivatives).                    *)
(***************************************************************************)
EXTENDS Integers, Sequences, FiniteSets, TLC

\* ------------------------------------------------------------------ bounds

\* Invocations (reorganize calls and script runs) in one behaviour.
MaxCalls == 2
\* Longest media_urls list of an artifact in an initial database.
MaxMedia == 2

\* ------------------------------------------------------------------- URLs
\* A URL string is modelled by the parts the code's substring and regex tests
\* look at: the host family and the path segments after the bucket.

NullUrl == [host |-> "none", path |-> <<>>]
NoPath == <<>>

\* `${SUPABASE_URL}/storage/v1/object/public/${STORAGE_BUCKET}/${path}`
getPublicUrl(path) == [host |-> "supabase", path |-> path]

\* url.includes("supabase.co/storage/v1/object/public/")
isSupabaseStorageUrl(url) == url.host = "supabase"

\* url.includes("cloudinary.com")
isCloudinaryUrl(url) == url.host = "cloudinary"

\* url.includes("supabase") && url.includes("/temp/")
isTempUrl(url) ==
    /\ url.host = "supabase"
    /\ \E k \in 1..(Len(url.path) - 1) : url.path[k] = "temp"

\* url.match(/\/public\/[^/]+\/(.+)$/): the path after the bucket, or null
extractPathFromUrl(url) == IF url.host = "supabase" THEN url.path ELSE NoPath

\* currentPath.split("/").pop()
Filename(path) == path[Len(path)]

\* new URL(url) and fetch(url) accept an absolute URL only
parsesAsUrl(url) == url.path = <<>> \/ Head(url.path) # "no-scheme"

\* ------------------------------------------------- JS objects and Maps
\* A JSON object (and a JS Map) is a sequence of <<key, value>> pairs with
\* distinct keys, in insertion order: the order Object.entries and Map
\* iteration follow.

Keys(obj) == {obj[k][1] : k \in 1..Len(obj)}

Has(obj, key) == key \in Keys(obj)

Get(obj, key) == obj[CHOOSE k \in 1..Len(obj) : obj[k][1] = key][2]

\* obj[key] = val / map.set(key, val): an existing key keeps its position
Put(obj, key, val) ==
    IF Has(obj, key)
    THEN [k \in 1..Len(obj) |-> IF obj[k][1] = key THEN <<key, val>> ELSE obj[k]]
    ELSE Append(obj, <<key, val>>)

\* urlMapping.get(url) || url
MapUrl(urlMapping, url) == IF Has(urlMapping, url) THEN Get(urlMapping, url) ELSE url

\* a re-keying that keeps the entries of mapped keys only
RECURSIVE RekeyFrom_mapped_only(_, _, _, _)
RekeyFrom_mapped_only(obj, urlMapping, k, updated) ==
    IF k > Len(obj) THEN updated
    ELSE RekeyFrom_mapped_only(obj, urlMapping, k + 1,
                   IF Has(urlMapping, obj[k][1])
                   THEN Put(updated, Get(urlMapping, obj[k][1]), obj[k][2])
                   ELSE updated)

\* for (const [oldUrl, text] of Object.entries(obj)) updated[urlMapping.get(oldUrl) || oldUrl] = text
RECURSIVE RekeyFrom(_, _, _, _)
RekeyFrom(obj, urlMapping, k, updated) ==
    IF k > Len(obj) THEN updated
    ELSE RekeyFrom(obj, urlMapping, k + 1,
                   Put(updated, MapUrl(urlMapping, obj[k][1]), obj[k][2]))

Rekey(obj, urlMapping) == RekeyFrom(obj, urlMapping, 1, <<>>)

\* A jsonb column: SQL NULL or an object.
JsonNull == [isNull |-> TRUE, entries |-> <<>>]
JsonObj(entries) == [isNull |-> FALSE, entries |-> entries]

\* [...new Set(list)]: the first occurrence of each element, in order
RECURSIVE DedupFrom(_, _, _)
DedupFrom(list, k, out) ==
    IF k > Len(list) THEN out
    ELSE DedupFrom(list, k + 1,
                   IF \E m \in 1..Len(out) : out[m] = list[k] THEN out
                   ELSE Append(out, list[k]))

Dedup(list) == DedupFrom(list, 1, <<>>)

Range(list) == {list[k] : k \in 1..Len(list)}

\* ------------------------------------------------------------- the state

VARIABLES
    artifacts,       \* table artifacts: id -> row
    user_media,      \* table user_media: set of rows
    artifact_media,  \* table artifact_media: set of rows
    blobs,           \* object store: paths of the blobs that exist
    cloud,           \* legacy delivery store: Cloudinary URLs whose original exists
    rg,              \* the reorganizeArtifactMedia invocation
    job,             \* the batch script run, or a second request in progress
    calls,           \* invocations so far
    relocations      \* history: the relocations attempted so far

db == <<artifacts, user_media, artifact_media>>
store == <<blobs, cloud>>
vars == <<artifacts, user_media, artifact_media, blobs, cloud, rg, job, calls, relocations>>

Users == {"u1", "u2"}
NoUser == "anonymous"
ArtifactIds == {"A1", "A2"}
Owner == "u1"

\* ------------------------------------------- object store (collaborator)

\* copy(srcPath, dstPath) -> ok | AlreadyExists | Error.  An existing
\* destination is reported as AlreadyExists, a missing source as an error,
\* and any call may fail on the network.
CopyOutcomes(src, dst) ==
    {"Error"}
      \cup (IF dst \in blobs THEN {"AlreadyExists"} ELSE {})
      \cup (IF src \in blobs /\ dst \notin blobs THEN {"ok"} ELSE {})

\* ----------------------------------------------- rewriting an artifact row

\* .update(updateData): the columns named in updateData.set are overwritten
ApplyUpdate(row, updateData) ==
    [f \in DOMAIN row |-> IF f \in updateData.set THEN updateData[f] ELSE row[f]]

MapList(list, urlMapping) == [k \in 1..Len(list) |-> MapUrl(urlMapping, list[k])]

RekeyJson(json, urlMapping) == JsonObj(Rekey(json.entries, urlMapping))

\* artifact.X && Object.keys(artifact.X).length > 0
NonEmptyJson(json) == ~json.isNull /\ Len(json.entries) > 0

\* a rewrite that maps media_urls and leaves the other columns alone
reorganizeUpdateData_media_only(artifact, urlMapping) ==
    [set |-> {"media_urls"},
     media_urls |-> MapList(artifact.media_urls, urlMapping),
     image_captions |-> artifact.image_captions,
     video_summaries |-> artifact.video_summaries,
     audio_transcripts |-> artifact.audio_transcripts,
     thumbnail_url |-> artifact.thumbnail_url]

\* reorganizeArtifactMedia, building updateData
reorganizeUpdateData(artifact, urlMapping) ==
    [set |-> {"media_urls"}
               \cup (IF NonEmptyJson(artifact.image_captions) THEN {"image_captions"} ELSE {})
               \cup (IF NonEmptyJson(artifact.video_summaries) THEN {"video_summaries"} ELSE {})
               \cup (IF NonEmptyJson(artifact.audio_transcripts) THEN {"audio_transcripts"} ELSE {})
               \cup (IF artifact.thumbnail_url # NullUrl /\ Has(urlMapping, artifact.thumbnail_url)
                     THEN {"thumbnail_url"} ELSE {}),
     media_urls |-> MapList(artifact.media_urls, urlMapping),
     image_captions |-> RekeyJson(artifact.image_captions, urlMapping),
     video_summaries |-> RekeyJson(artifact.video_summaries, urlMapping),
     audio_transcripts |-> RekeyJson(artifact.audio_transcripts, urlMapping),
     thumbnail_url |-> MapUrl(urlMapping, artifact.thumbnail_url)]

\* .update({public_url: newUrl, storage_path: newUrl}).eq("public_url", oldUrl).eq("user_id", userId)
UserMediaMatches(oldUrl, userId) ==
    {m \in user_media : m.public_url = oldUrl /\ m.user_id = userId}

\* user_media_public_url_key UNIQUE (public_url)
UserMediaUpdateBreaksUnique(oldUrl, newUrl, userId) ==
    LET hit == UserMediaMatches(oldUrl, userId)
    IN  /\ hit # {}
        /\ \/ Cardinality(hit) > 1
           \/ \E m \in user_media \ hit : m.public_url = newUrl

UserMediaUpdated(oldUrl, newUrl, userId) ==
    {IF m \in UserMediaMatches(oldUrl, userId)
     THEN [m EXCEPT !.public_url = newUrl, !.storage_path = newUrl]
     ELSE m : m \in user_media}

\* one attempted relocation: the copy's outcome, the destination URL the
\* caller uses for the blob, and whether the caller recorded an error for it
Relocation(url, artifactId, outcome, publicUrl, reported) ==
    [url |-> url, artifactId |-> artifactId, copy |-> outcome,
     publicUrl |-> publicUrl, reported |-> reported]

\* ----------------------------------------------- reorganizeArtifactMedia

Snapshot == [artifacts |-> artifacts, user_media |-> user_media,
             artifact_media |-> artifact_media, blobs |-> blobs, cloud |-> cloud]

NoResult == [error |-> "", success |-> FALSE, movedCount |-> 0, errors |-> <<>>]

JobIdle ==
    [pc |-> "idle", script |-> "none", execute |-> FALSE, dryRun |-> FALSE,
     skipDelete |-> FALSE, queue |-> <<>>, media |-> {}, links |-> {},
     n |-> 1, k |-> 1, j |-> 1, urlMapping |-> <<>>, movedCount |-> 0,
     errors |-> <<>>, results |-> <<>>, exit |-> -1, pre |-> NullUrl,
     failing |-> {}, limit |-> 0, dbFailed |-> FALSE, done |-> {},
     fatal |-> FALSE, prev |-> NullUrl]

RgIdle ==
    [pc |-> "idle", caller |-> NoUser, artifactId |-> "A1",
     artifact |-> NullUrl, allUrls |-> <<>>, i |-> 1, j |-> 1,
     urlMapping |-> <<>>, movedCount |-> 0, errors |-> <<>>,
     result |-> NoResult,
     pre |-> NullUrl, failed |-> FALSE, umFailed |-> {}, crashed |-> FALSE,
     retry |-> FALSE, first |-> NullUrl]

\* return ...: the result, with the locals of the finished call dropped
RgReturn(result) ==
    [rg EXCEPT !.pc = "done", !.result = result, !.artifact = NullUrl,
               !.allUrls = <<>>, !.i = 1, !.j = 1]

\* the previous call was a reorganize of this artifact by this caller that
\* stopped on a failure or a crash after it had copied a blob, or was itself
\* such a retry that stopped
RgStopped(caller, artifactId) ==
    /\ rg.pc = "done"
    /\ rg.caller = caller
    /\ rg.artifactId = artifactId
    /\ rg.failed
    /\ \/ \E path \in blobs : path \notin rg.pre.blobs
       \/ rg.retry

\* the database and store as the first of a run of stopped calls found them
RgFirst(caller, artifactId) ==
    IF ~RgStopped(caller, artifactId) THEN NullUrl
    ELSE IF rg.retry THEN rg.first
    ELSE rg.pre

\* a start that checks the session but not the owner of the artifact
RgStart_no_owner_check(caller, artifactId, fetchOk) ==
    /\ rg.pc \in {"idle", "done"}
    /\ job.pc \in {"idle", "exited"}
    /\ calls < MaxCalls
    /\ calls' = calls + 1
    /\ LET fresh == [RgIdle EXCEPT !.caller = caller, !.artifactId = artifactId,
                                   !.pre = Snapshot]
       IN  rg' = IF caller = NoUser
                   THEN [fresh EXCEPT !.pc = "done",
                                      !.result = [NoResult EXCEPT !.error = "Unauthorized"]]
                 ELSE IF ~fetchOk
                   THEN [fresh EXCEPT !.pc = "done",
                                      !.result = [NoResult EXCEPT !.error = "Artifact not found"]]
                 ELSE [fresh EXCEPT !.pc = "gallery", !.artifact = artifacts[artifactId]]
    /\ job' = JobIdle
    /\ UNCHANGED <<db, store, relocations>>

\* lines 19-45: getUser, fetch the artifact, check the owner
RgBegin(caller, artifactId, fetchOk) ==
    LET fresh == [RgIdle EXCEPT !.caller = caller, !.artifactId = artifactId,
                                !.pre = Snapshot,
                                !.retry = RgStopped(caller, artifactId),
                                !.first = RgFirst(caller, artifactId)]
    IN  IF caller = NoUser
          THEN [fresh EXCEPT !.pc = "done",
                             !.result = [NoResult EXCEPT !.error = "Unauthorized"]]
        ELSE IF ~fetchOk
          THEN [fresh EXCEPT !.pc = "done",
                             !.result = [NoResult EXCEPT !.error = "Artifact not found"]]
        ELSE IF artifacts[artifactId].user_id # caller
          THEN [fresh EXCEPT !.pc = "done",
                             !.result = [NoResult EXCEPT !.error = "Unauthorized"]]
        ELSE [fresh EXCEPT !.pc = "gallery", !.artifact = artifacts[artifactId]]

RgStart(caller, artifactId, fetchOk) ==
    /\ rg.pc \in {"idle", "done"}
    /\ job.pc \in {"idle", "exited"}
    /\ calls < MaxCalls
    /\ calls' = calls + 1
    /\ rg' = RgBegin(caller, artifactId, fetchOk)
    /\ job' = JobIdle
    /\ UNCHANGED <<db, store, relocations>>

\* the gallery rows of the artifact, joined to user_media, in id order
RECURSIVE SeqOfUrls(_)
SeqOfUrls(rows) ==
    IF rows = {} THEN <<>>
    ELSE LET m == CHOOSE x \in rows : \A y \in rows : x.id <= y.id
         IN  <<m.public_url>> \o SeqOfUrls(rows \ {m})

\* a union that leaves the gallery out
GalleryUrls_none(artifactId) == <<>>

GalleryUrls(artifactId) ==
    SeqOfUrls({m \in user_media :
                 \E link \in artifact_media :
                    /\ link.artifact_id = artifactId
                    /\ link.role = "gallery"
                    /\ link.media_id = m.id})

\* lines 47-81: the gallery links, the deduplicated union, the empty case
RgGallery(galleryOk) ==
    /\ rg.pc = "gallery"
    /\ LET galleryUrls == IF galleryOk THEN GalleryUrls(rg.artifactId) ELSE <<>>
           allUrls == Dedup(rg.artifact.media_urls \o galleryUrls)
           seen == [rg EXCEPT !.failed = ~galleryOk]
       IN  rg' = IF Len(allUrls) = 0
                 THEN [seen EXCEPT !.pc = "done", !.artifact = NullUrl,
                                   !.result = [NoResult EXCEPT !.success = TRUE]]
                 ELSE [seen EXCEPT !.pc = "loop", !.allUrls = allUrls, !.i = 1]
    /\ UNCHANGED <<db, store, job, calls, relocations>>

\* moveSupabaseFile: the destination {userId}/{artifactId}/{filename}
DestPath(url, userId, artifactId) ==
    <<userId, artifactId, Filename(extractPathFromUrl(url))>>

\* moveSupabaseFile acts on object-store URLs under the temporary prefix only
NeedsMove(url) == isSupabaseStorageUrl(url) /\ isTempUrl(url)

RgUrl == rg.allUrls[rg.i]

\* lines 89-105, a URL that is not moved: not an object-store URL, or
\* moveSupabaseFile returns it unchanged (result.publicUrl === url)
RgSkip ==
    /\ rg.pc = "loop"
    /\ rg.i <= Len(rg.allUrls)
    /\ ~NeedsMove(RgUrl)
    /\ rg' = [rg EXCEPT !.i = @ + 1]
    /\ UNCHANGED <<db, store, job, calls, relocations>>

\* a loop that counts the move and forgets the new URL
RgMoved_no_mapping(state, url, result) ==
    IF result.error # "" \/ result.publicUrl = NullUrl
    THEN [state EXCEPT !.errors = Append(@, <<"Failed to move", url>>),
                       !.failed = TRUE, !.i = @ + 1, !.pc = "loop"]
    ELSE IF result.publicUrl # url
    THEN [state EXCEPT !.movedCount = @ + 1, !.i = @ + 1, !.pc = "loop"]
    ELSE [state EXCEPT !.i = @ + 1, !.pc = "loop"]

\* a loop that keeps the original URL in the mapping when the move failed
RgMoved_maps_failures(state, url, result) ==
    IF result.error # "" \/ result.publicUrl = NullUrl
    THEN [state EXCEPT !.errors = Append(@, <<"Failed to move", url>>),
                       !.urlMapping = Put(@, url, url),
                       !.failed = TRUE, !.i = @ + 1, !.pc = "loop"]
    ELSE IF result.publicUrl # url
    THEN [state EXCEPT !.movedCount = @ + 1,
                       !.urlMapping = Put(@, url, result.publicUrl),
                       !.i = @ + 1, !.pc = "loop"]
    ELSE [state EXCEPT !.i = @ + 1, !.pc = "loop"]

\* lines 94-102: what the loop does with the result of moveSupabaseFile
RgMoved(state, url, result) ==
    IF result.error # "" \/ result.publicUrl = NullUrl
    THEN [state EXCEPT !.errors = Append(@, <<"Failed to move", url>>),
                       !.failed = TRUE, !.i = @ + 1, !.pc = "loop"]
    ELSE IF result.publicUrl # url
    THEN [state EXCEPT !.movedCount = @ + 1,
                       !.urlMapping = Put(@, url, result.publicUrl),
                       !.i = @ + 1, !.pc = "loop"]
    ELSE [state EXCEPT !.i = @ + 1, !.pc = "loop"]

\* moveSupabaseFile, the copy
RgCopy(outcome) ==
    /\ rg.pc = "loop"
    /\ rg.i <= Len(rg.allUrls)
    /\ NeedsMove(RgUrl)
    /\ LET src == extractPathFromUrl(RgUrl)
           dst == DestPath(RgUrl, rg.caller, rg.artifactId)
       IN  /\ outcome \in CopyOutcomes(src, dst)
           /\ blobs' = IF outcome = "ok" THEN blobs \cup {dst} ELSE blobs
           /\ rg' = CASE outcome = "ok" -> [rg EXCEPT !.pc = "delete"]
                      [] outcome = "AlreadyExists" ->
                           RgMoved(rg, RgUrl, [error |-> "", publicUrl |-> getPublicUrl(dst)])
                      [] OTHER ->
                           RgMoved(rg, RgUrl, [error |-> "copy failed", publicUrl |-> NullUrl])
    /\ relocations' = relocations \cup
         {Relocation(RgUrl, rg.artifactId, outcome,
                     IF outcome = "ok"
                     THEN getPublicUrl(DestPath(RgUrl, rg.caller, rg.artifactId))
                     ELSE MapUrl(rg'.urlMapping, RgUrl),
                     rg'.errors # rg.errors)}
    /\ UNCHANGED <<db, cloud, job, calls>>

\* moveSupabaseFile, the best-effort delete of the source after the copy
RgDelete(deleteOk) ==
    /\ rg.pc = "delete"
    /\ LET src == extractPathFromUrl(RgUrl)
           dst == DestPath(RgUrl, rg.caller, rg.artifactId)
       IN  /\ blobs' = IF deleteOk THEN blobs \ {src} ELSE blobs
           /\ rg' = RgMoved(rg, RgUrl, [error |-> "", publicUrl |-> getPublicUrl(dst)])
    /\ UNCHANGED <<db, cloud, job, calls, relocations>>

\* lines 189-198
RgSuccess ==
    [error |-> "", success |-> TRUE, movedCount |-> rg.movedCount, errors |-> rg.errors]

\* line 111 with movedCount = 0: nothing to update
RgNothingMoved ==
    /\ rg.pc = "loop"
    /\ rg.i > Len(rg.allUrls)
    /\ rg.movedCount = 0
    /\ rg' = RgReturn(RgSuccess)
    /\ UNCHANGED <<db, store, job, calls, relocations>>

\* lines 107-166: the update of the artifact row
RgUpdateArtifact(updateOk) ==
    /\ rg.pc = "loop"
    /\ rg.i > Len(rg.allUrls)
    /\ rg.movedCount > 0
    /\ IF updateOk
       THEN /\ artifacts' = [artifacts EXCEPT ![rg.artifactId] =
                               ApplyUpdate(@, reorganizeUpdateData(rg.artifact, rg.urlMapping))]
            /\ rg' = [rg EXCEPT !.pc = "user_media", !.j = 1]
       ELSE /\ artifacts' = artifacts
            /\ rg' = [RgReturn([NoResult EXCEPT
                                  !.error = "Failed to update artifact with new URLs"])
                        EXCEPT !.failed = TRUE]
    /\ UNCHANGED <<user_media, artifact_media, store, job, calls, relocations>>

\* lines 170-186: one iteration of the user_media loop
RgUserMedia(updateOk) ==
    /\ rg.pc = "user_media"
    /\ rg.j <= Len(rg.urlMapping)
    /\ LET oldUrl == rg.urlMapping[rg.j][1]
           newUrl == rg.urlMapping[rg.j][2]
       IN  /\ updateOk => ~UserMediaUpdateBreaksUnique(oldUrl, newUrl, rg.caller)
           /\ IF updateOk
              THEN /\ user_media' = UserMediaUpdated(oldUrl, newUrl, rg.caller)
                   /\ rg' = [rg EXCEPT !.j = @ + 1]
              ELSE /\ user_media' = user_media
                   /\ rg' = [rg EXCEPT !.j = @ + 1, !.failed = TRUE,
                                       !.umFailed = @ \cup {oldUrl}]
    /\ UNCHANGED <<artifacts, artifact_media, store, job, calls, relocations>>

\* lines 189-198
RgDone ==
    /\ rg.pc = "user_media"
    /\ rg.j > Len(rg.urlMapping)
    /\ rg' = RgReturn(RgSuccess)
    /\ UNCHANGED <<db, store, job, calls, relocations>>

\* the server process dies in the middle of a call
RgCrash ==
    /\ rg.pc \in {"gallery", "loop", "delete", "user_media"}
    /\ rg' = [RgReturn(NoResult) EXCEPT !.crashed = TRUE, !.failed = TRUE]
    /\ UNCHANGED <<db, store, job, calls, relocations>>

Reorganize ==
    \/ \E caller \in Users \cup {NoUser}, artifactId \in ArtifactIds, fetchOk \in BOOLEAN :
          RgStart(caller, artifactId, fetchOk)
    \/ \E galleryOk \in BOOLEAN : RgGallery(galleryOk)
    \/ RgSkip
    \/ \E outcome \in {"ok", "AlreadyExists", "Error"} : RgCopy(outcome)
    \/ \E deleteOk \in BOOLEAN : RgDelete(deleteOk)
    \/ RgNothingMoved
    \/ \E updateOk \in BOOLEAN : RgUpdateArtifact(updateOk)
    \/ \E updateOk \in BOOLEAN : RgUserMedia(updateOk)
    \/ RgDone
    \/ RgCrash


\* ------------------------------------------------------- batch scripts

\* process.exit(code), with the locals of the finished run dropped
JobExit(state, code) ==
    [state EXCEPT !.pc = "exited", !.exit = code, !.queue = <<>>, !.n = 1, !.k = 1,
                  !.j = 1, !.urlMapping = <<>>, !.movedCount = 0, !.errors = <<>>,
                  !.media = {}, !.links = {}]

JobCanStart ==
    /\ job.pc \in {"idle", "exited"}
    /\ rg.pc \in {"idle", "done"}
    /\ calls < MaxCalls

\* the rows of a scan of artifacts, in the order the table returns them
ArtifactOrder == <<"A1", "A2">>

SeqOfIds(ids) ==
    LET Selected(a) == a \in ids
    IN  SelectSeq(ArtifactOrder, Selected)

\* ------------------------------------------ scripts/migrate-temp-media.ts

\* findArtifactsWithTempMedia: the temp URLs of media_urls, then the thumbnail
TempUrlsOf(row) ==
    LET inMedia == SelectSeq(row.media_urls, isTempUrl)
    IN  IF /\ row.thumbnail_url # NullUrl
           /\ isTempUrl(row.thumbnail_url)
           /\ row.thumbnail_url \notin Range(inMedia)
        THEN Append(inMedia, row.thumbnail_url)
        ELSE inMedia

findArtifactsWithTempMedia ==
    LET ids == SeqOfIds({a \in ArtifactIds : Len(TempUrlsOf(artifacts[a])) > 0})
    IN  [x \in 1..Len(ids) |->
            [id |-> ids[x], row |-> artifacts[ids[x]], tempUrls |-> TempUrlsOf(artifacts[ids[x]])]]

\* Object.keys(updated).length > 0 ? updated : null
RekeyOrNull(json, urlMapping) ==
    LET updated == Rekey(json.entries, urlMapping)
    IN  IF Len(updated) > 0 THEN JsonObj(updated) ELSE JsonNull

\* migrateArtifactMedia, the columns of the artifact update
migrateTempUpdateData(artifact, urlMapping) ==
    [set |-> {"media_urls", "thumbnail_url", "image_captions", "video_summaries",
              "audio_transcripts"},
     media_urls |-> MapList(artifact.media_urls, urlMapping),
     thumbnail_url |-> MapUrl(urlMapping, artifact.thumbnail_url),
     image_captions |-> RekeyOrNull(artifact.image_captions, urlMapping),
     video_summaries |-> RekeyOrNull(artifact.video_summaries, urlMapping),
     audio_transcripts |-> RekeyOrNull(artifact.audio_transcripts, urlMapping)]

\* migrateTempMedia: the scan; the dry run ends here
MtStart(shouldMigrate, fetchOk) ==
    /\ JobCanStart
    /\ calls' = calls + 1
    /\ LET run == [JobIdle EXCEPT !.script = "migrate-temp-media", !.fatal = ~fetchOk,
                                  !.pc = "artifact",
                                  !.execute = shouldMigrate, !.pre = Snapshot,
                                  !.queue = findArtifactsWithTempMedia]
       IN  job' = IF ~fetchOk THEN JobExit(run, 1)
                  ELSE IF Len(run.queue) = 0 THEN JobExit(run, 0)
                  ELSE IF ~shouldMigrate THEN JobExit(run, 0)
                  ELSE run
    /\ rg' = RgIdle
    /\ UNCHANGED <<db, store, relocations>>

MtArtifact == job.queue[job.n]
MtUrl == MtArtifact.tempUrls[job.k]
MtNewPath == <<MtArtifact.row.user_id, MtArtifact.id, Filename(extractPathFromUrl(MtUrl))>>

\* a copy that takes an existing destination for a failure
migrateCopyResult_exists_is_error(state, tempUrl, newUrl, outcome) ==
    IF outcome = "ok" THEN [state EXCEPT !.pc = "delete"]
    ELSE [state EXCEPT !.errors = Append(@, <<"Failed to copy", tempUrl>>), !.k = @ + 1]

\* a copy whose failure is taken for a relocation
migrateCopyResult_unconfirmed(state, tempUrl, newUrl, outcome) ==
    IF outcome = "ok" THEN [state EXCEPT !.pc = "delete"]
    ELSE [state EXCEPT !.urlMapping = Put(@, tempUrl, newUrl),
                       !.movedCount = @ + 1, !.k = @ + 1]

\* migrateArtifactMedia lines 159-169 and 184-186: the copy's outcome
migrateCopyResult(state, tempUrl, newUrl, outcome) ==
    CASE outcome = "ok" -> [state EXCEPT !.pc = "delete"]
      [] outcome = "AlreadyExists" ->
           [state EXCEPT !.urlMapping = Put(@, tempUrl, newUrl),
                         !.movedCount = @ + 1, !.k = @ + 1]
      [] OTHER ->
           [state EXCEPT !.errors = Append(@, <<"Failed to copy", tempUrl>>), !.k = @ + 1]

\* lines 132-169: one temp URL, up to the copy
MtCopy(outcome) ==
    /\ job.script = "migrate-temp-media"
    /\ job.pc = "artifact"
    /\ job.n <= Len(job.queue)
    /\ job.k <= Len(MtArtifact.tempUrls)
    /\ IF extractPathFromUrl(MtUrl) = NoPath
       THEN /\ outcome = "Error"
            /\ job' = [job EXCEPT !.errors = Append(@, <<"Invalid URL", MtUrl>>), !.k = @ + 1]
            /\ UNCHANGED <<blobs, relocations>>
       ELSE /\ outcome \in CopyOutcomes(extractPathFromUrl(MtUrl), MtNewPath)
            /\ blobs' = IF outcome = "ok" THEN blobs \cup {MtNewPath} ELSE blobs
            /\ job' = migrateCopyResult(job, MtUrl, getPublicUrl(MtNewPath), outcome)
            /\ relocations' = relocations \cup
                 {Relocation(MtUrl, MtArtifact.id, outcome,
                             IF outcome = "ok" THEN getPublicUrl(MtNewPath)
                             ELSE MapUrl(job'.urlMapping, MtUrl),
                             job'.errors # job.errors)}
    /\ UNCHANGED <<db, cloud, rg, calls>>

\* lines 171-183: the delete of the temp blob, a failure being a warning
MtDelete(deleteOk) ==
    /\ job.script = "migrate-temp-media"
    /\ job.pc = "delete"
    /\ blobs' = IF deleteOk THEN blobs \ {extractPathFromUrl(MtUrl)} ELSE blobs
    /\ job' = [job EXCEPT !.pc = "artifact",
                          !.urlMapping = Put(@, MtUrl, getPublicUrl(MtNewPath)),
                          !.movedCount = @ + 1, !.k = @ + 1]
    /\ UNCHANGED <<db, cloud, rg, calls, relocations>>

\* return { success: errors.length === 0, movedCount, errors }
MtReturn(state) ==
    [state EXCEPT !.pc = "artifact", !.n = @ + 1, !.k = 1, !.j = 1,
                  !.urlMapping = <<>>, !.movedCount = 0, !.errors = <<>>,
                  !.results = Append(@, [id |-> state.queue[state.n].id,
                                         success |-> Len(state.errors) = 0,
                                         movedCount |-> state.movedCount,
                                         errors |-> state.errors])]

\* line 190 with movedCount = 0: no update
MtNothingMoved ==
    /\ job.script = "migrate-temp-media"
    /\ job.pc = "artifact"
    /\ job.n <= Len(job.queue)
    /\ job.k > Len(MtArtifact.tempUrls)
    /\ job.movedCount = 0
    /\ job' = MtReturn(job)
    /\ UNCHANGED <<db, store, rg, calls, relocations>>

\* lines 189-242: the artifact update; a failure is recorded and the run goes on
MtUpdateArtifact(updateOk) ==
    /\ job.script = "migrate-temp-media"
    /\ job.pc = "artifact"
    /\ job.n <= Len(job.queue)
    /\ job.k > Len(MtArtifact.tempUrls)
    /\ job.movedCount > 0
    /\ artifacts' = IF updateOk
                    THEN [artifacts EXCEPT ![MtArtifact.id] =
                            ApplyUpdate(@, migrateTempUpdateData(MtArtifact.row, job.urlMapping))]
                    ELSE artifacts
    /\ job' = [job EXCEPT !.pc = "user_media", !.j = 1,
                          !.errors = IF updateOk THEN @
                                     ELSE Append(@, <<"Failed to update artifact record">>)]
    /\ UNCHANGED <<user_media, artifact_media, store, rg, calls, relocations>>

\* lines 245-259: one iteration of the user_media loop
MtUserMedia(updateOk) ==
    /\ job.script = "migrate-temp-media"
    /\ job.pc = "user_media"
    /\ job.j <= Len(job.urlMapping)
    /\ LET oldUrl == job.urlMapping[job.j][1]
           newUrl == job.urlMapping[job.j][2]
           userId == MtArtifact.row.user_id
       IN  /\ updateOk => ~UserMediaUpdateBreaksUnique(oldUrl, newUrl, userId)
           /\ user_media' = IF updateOk THEN UserMediaUpdated(oldUrl, newUrl, userId)
                            ELSE user_media
    /\ job' = [job EXCEPT !.j = @ + 1]
    /\ UNCHANGED <<artifacts, artifact_media, store, rg, calls, relocations>>

MtArtifactDone ==
    /\ job.script = "migrate-temp-media"
    /\ job.pc = "user_media"
    /\ job.j > Len(job.urlMapping)
    /\ job' = MtReturn(job)
    /\ UNCHANGED <<db, store, rg, calls, relocations>>

\* lines 322-345: the summary, process.exit(0)
MtFinish ==
    /\ job.script = "migrate-temp-media"
    /\ job.pc = "artifact"
    /\ job.n > Len(job.queue)
    /\ job' = JobExit(job, 0)
    /\ UNCHANGED <<db, store, rg, calls, relocations>>

MigrateTempMedia ==
    \/ \E shouldMigrate \in BOOLEAN, fetchOk \in BOOLEAN : MtStart(shouldMigrate, fetchOk)
    \/ \E outcome \in {"ok", "AlreadyExists", "Error"} : MtCopy(outcome)
    \/ \E deleteOk \in BOOLEAN : MtDelete(deleteOk)
    \/ MtNothingMoved
    \/ \E updateOk \in BOOLEAN : MtUpdateArtifact(updateOk)
    \/ \E updateOk \in BOOLEAN : MtUserMedia(updateOk)
    \/ MtArtifactDone
    \/ MtFinish

\* -------------------------------------- scripts/cleanup-orphaned-media.ts

\* a dry run only when --delete is absent
isDryRun_delete_wins(shouldDelete, dryRun) == ~shouldDelete

\* const isDryRun = !shouldDelete || args.includes("--dry-run")
isDryRun(shouldDelete, dryRun) == ~shouldDelete \/ dryRun

\* checkUrlExists: a HEAD request, false on a response that is not ok and on
\* an exception (a network error, a URL fetch rejects); failing is the set of
\* URLs whose request fails on the network.  The answer for a URL is cached,
\* so it is the same in every scan of one run.
checkUrlExists(url, failing) ==
    /\ url \notin failing
    /\ parsesAsUrl(url)
    /\ CASE isSupabaseStorageUrl(url) -> extractPathFromUrl(url) \in blobs
         [] isCloudinaryUrl(url) -> url \in cloud
         [] OTHER -> TRUE

\* findOrphanedUserMedia: the rows whose URL fails the check
findOrphanedUserMedia(failing, fetchOk) ==
    IF fetchOk THEN {m \in user_media : ~checkUrlExists(m.public_url, failing)} ELSE {}

\* findOrphanedArtifactMedia: the links whose media_id is no user_media row
findOrphanedArtifactMedia(fetchOk) ==
    IF fetchOk
    THEN {link \in artifact_media : \A m \in user_media : m.id # link.media_id}
    ELSE {}

\* delete obj[url] for the broken URLs; null stays null
WithoutKeys(json, brokenUrls) ==
    IF json.isNull THEN json
    ELSE LET Kept(entry) == entry[1] \notin brokenUrls
         IN  JsonObj(SelectSeq(json.entries, Kept))

\* the URLs probed by the legacy scan: media_urls and thumbnail_url
LegacyUrls ==
    UNION {Range(artifacts[a].media_urls)
             \cup (IF artifacts[a].thumbnail_url = NullUrl THEN {}
                   ELSE {artifacts[a].thumbnail_url}) : a \in ArtifactIds}

\* one entry of the cleanup list: the row without its broken URLs
LegacyCleanup(a, brokenUrls) ==
    LET row == artifacts[a]
        Valid(url) == url \notin brokenUrls
        cleanedMediaUrls == SelectSeq(row.media_urls, Valid)
    IN  [id |-> a,
         brokenUrls |-> (Range(row.media_urls) \cup {row.thumbnail_url}) \cap brokenUrls,
         update |->
           [set |-> {"media_urls", "thumbnail_url", "image_captions", "video_summaries",
                     "audio_transcripts"},
            media_urls |-> cleanedMediaUrls,
            thumbnail_url |->
              IF row.thumbnail_url # NullUrl /\ row.thumbnail_url \in brokenUrls
              THEN IF Len(cleanedMediaUrls) > 0 THEN cleanedMediaUrls[1] ELSE NullUrl
              ELSE row.thumbnail_url,
            image_captions |-> WithoutKeys(row.image_captions, brokenUrls),
            video_summaries |-> WithoutKeys(row.video_summaries, brokenUrls),
            audio_transcripts |-> WithoutKeys(row.audio_transcripts, brokenUrls)]]

\* findLegacyArtifactsWithBrokenMedia
findLegacyArtifactsWithBrokenMedia(failing, fetchOk) ==
    LET brokenUrls == {u \in LegacyUrls : ~checkUrlExists(u, failing)}
        ids == SeqOfIds({a \in ArtifactIds : LegacyCleanup(a, brokenUrls).brokenUrls # {}})
    IN  IF ~fetchOk THEN <<>>
        ELSE [x \in 1..Len(ids) |-> LegacyCleanup(ids[x], brokenUrls)]

\* main: the three scans, the summary, and the end of a dry run
OcStart(shouldDelete, dryRun, failing, fetchOk) ==
    /\ JobCanStart
    /\ calls' = calls + 1
    /\ LET orphanedUserMedia == findOrphanedUserMedia(failing, fetchOk)
           orphanedIds == {m.id : m \in orphanedUserMedia}
           linkedArtifactMedia == {link \in artifact_media : link.media_id \in orphanedIds}
           uniqueArtifactMediaIds ==
               {link.id : link \in findOrphanedArtifactMedia(fetchOk) \cup linkedArtifactMedia}
           legacyCleanupList == findLegacyArtifactsWithBrokenMedia(failing, fetchOk)
           hasOrphans == \/ orphanedIds # {}
                         \/ uniqueArtifactMediaIds # {}
                         \/ Len(legacyCleanupList) > 0
           run == [JobIdle EXCEPT !.script = "cleanup-orphaned-media", !.fatal = ~fetchOk,
                                  !.pc = "delete_links",
                                  !.execute = shouldDelete, !.dryRun = dryRun,
                                  !.pre = Snapshot, !.failing = failing,
                                  !.dbFailed = ~fetchOk,
                                  !.media = orphanedIds,
                                  !.links = uniqueArtifactMediaIds,
                                  !.queue = legacyCleanupList]
       IN  job' = IF ~hasOrphans THEN JobExit(run, 0)
                  ELSE IF isDryRun(shouldDelete, dryRun) THEN JobExit(run, 0)
                  ELSE run
    /\ rg' = RgIdle
    /\ UNCHANGED <<db, store, relocations>>

\* deleteOrphanedRecords: the artifact_media rows first
OcDeleteLinks(deleteOk) ==
    /\ job.script = "cleanup-orphaned-media"
    /\ job.pc = "delete_links"
    /\ artifact_media' = IF deleteOk
                         THEN {link \in artifact_media : link.id \notin job.links}
                         ELSE artifact_media
    /\ job' = [job EXCEPT !.pc = "delete_media", !.dbFailed = @ \/ ~deleteOk]
    /\ UNCHANGED <<artifacts, user_media, store, rg, calls, relocations>>

\* deleteOrphanedRecords: then the user_media rows; the links of a deleted
\* row go with it (artifact_media.media_id ON DELETE CASCADE)
OcDeleteMedia(deleteOk) ==
    /\ job.script = "cleanup-orphaned-media"
    /\ job.pc = "delete_media"
    /\ LET gone == IF deleteOk THEN job.media ELSE {}
       IN  /\ user_media' = {m \in user_media : m.id \notin gone}
           /\ artifact_media' = {link \in artifact_media : link.media_id \notin gone}
    /\ job' = [job EXCEPT !.pc = "legacy", !.n = 1, !.dbFailed = @ \/ ~deleteOk]
    /\ UNCHANGED <<artifacts, store, rg, calls, relocations>>

\* cleanupLegacyArtifacts: one artifact of the cleanup list
OcLegacy(updateOk) ==
    /\ job.script = "cleanup-orphaned-media"
    /\ job.pc = "legacy"
    /\ job.n <= Len(job.queue)
    /\ artifacts' = IF updateOk
                    THEN [artifacts EXCEPT ![job.queue[job.n].id] =
                            ApplyUpdate(@, job.queue[job.n].update)]
                    ELSE artifacts
    /\ job' = [job EXCEPT !.n = @ + 1, !.dbFailed = @ \/ ~updateOk,
                          !.results = Append(@, [id |-> job.queue[job.n].id,
                                                 success |-> updateOk])]
    /\ UNCHANGED <<user_media, artifact_media, store, rg, calls, relocations>>

\* the end of main
OcFinish ==
    /\ job.script = "cleanup-orphaned-media"
    /\ job.pc = "legacy"
    /\ job.n > Len(job.queue)
    /\ job' = JobExit(job, 0)
    /\ UNCHANGED <<db, store, rg, calls, relocations>>

\* the URLs a scan probes
ProbedUrls == LegacyUrls \cup {m.public_url : m \in user_media}

CleanupOrphanedMedia ==
    \/ \E shouldDelete \in BOOLEAN, dryRun \in BOOLEAN, fetchOk \in BOOLEAN,
          failing \in {{}} \cup {{u} : u \in ProbedUrls} :
            OcStart(shouldDelete, dryRun, failing, fetchOk)
    \/ \E deleteOk \in BOOLEAN : OcDeleteLinks(deleteOk)
    \/ \E deleteOk \in BOOLEAN : OcDeleteMedia(deleteOk)
    \/ \E updateOk \in BOOLEAN : OcLegacy(updateOk)
    \/ OcFinish

\* ------------------------------- scripts/migrate-cloudinary-to-supabase.ts

\* an update that rewrites media_urls and the JSON maps but not thumbnail_url
updateArtifactUrlsData_keeps_thumbnail(artifact, urlMappings) ==
    [set |-> (IF Len(artifact.media_urls) > 0 THEN {"media_urls"} ELSE {})
               \cup (IF ~artifact.image_captions.isNull THEN {"image_captions"} ELSE {})
               \cup (IF ~artifact.video_summaries.isNull THEN {"video_summaries"} ELSE {})
               \cup (IF ~artifact.audio_transcripts.isNull THEN {"audio_transcripts"} ELSE {}),
     media_urls |-> MapList(artifact.media_urls, urlMappings),
     thumbnail_url |-> artifact.thumbnail_url,
     image_captions |-> RekeyJson(artifact.image_captions, urlMappings),
     video_summaries |-> RekeyJson(artifact.video_summaries, urlMappings),
     audio_transcripts |-> RekeyJson(artifact.audio_transcripts, urlMappings)]

\* updateArtifactUrls of the Cloudinary migrator, the columns of the update
updateArtifactUrlsData(artifact, urlMappings) ==
    [set |-> (IF Len(artifact.media_urls) > 0 THEN {"media_urls"} ELSE {})
               \cup (IF artifact.thumbnail_url # NullUrl /\ Has(urlMappings, artifact.thumbnail_url)
                     THEN {"thumbnail_url"} ELSE {})
               \cup (IF ~artifact.image_captions.isNull THEN {"image_captions"} ELSE {})
               \cup (IF ~artifact.video_summaries.isNull THEN {"video_summaries"} ELSE {})
               \cup (IF ~artifact.audio_transcripts.isNull THEN {"audio_transcripts"} ELSE {}),
     media_urls |-> MapList(artifact.media_urls, urlMappings),
     thumbnail_url |-> MapUrl(urlMappings, artifact.thumbnail_url),
     image_captions |-> RekeyJson(artifact.image_captions, urlMappings),
     video_summaries |-> RekeyJson(artifact.video_summaries, urlMappings),
     audio_transcripts |-> RekeyJson(artifact.audio_transcripts, urlMappings)]

\* the Cloudinary URLs of media_urls, then the thumbnail: a Set, in order
CloudinaryUrlsOf(row) ==
    Dedup(SelectSeq(row.media_urls, isCloudinaryUrl)
            \o (IF row.thumbnail_url # NullUrl /\ isCloudinaryUrl(row.thumbnail_url)
                THEN <<row.thumbnail_url>> ELSE <<>>))

\* findArtifactsToMigrate: the artifacts with a Cloudinary URL in media_urls
\* or thumbnail_url
findArtifactsToMigrate ==
    LET ids == SeqOfIds({a \in ArtifactIds : Len(CloudinaryUrlsOf(artifacts[a])) > 0})
    IN  [x \in 1..Len(ids) |-> [id |-> ids[x], row |-> artifacts[ids[x]]]]

\* if (limit && limit < artifacts.length) artifacts = artifacts.slice(0, limit)
ApplyLimit(list, limit) ==
    IF limit # 0 /\ limit < Len(list) THEN SubSeq(list, 1, limit) ELSE list

\* the artifacts that runs of the migrator up to this one migrated in full:
\* every Cloudinary URL uploaded and every database update applied
McMigrated ==
    IF job.script # "migrate-cloudinary" THEN {}
    ELSE job.done \cup {job.results[x].id : x \in {y \in 1..Len(job.results) :
                                                    /\ job.results[y].mapped = job.results[y].total
                                                    /\ ~job.results[y].dbFailed}}

\* migrateCloudinaryToSupabase: the scan, the limit; the preview ends here
McBegin(shouldMigrate, limit, skipDelete, fetchOk) ==
    LET run == [JobIdle EXCEPT !.script = "migrate-cloudinary", !.fatal = ~fetchOk,
                               !.pc = "artifact",
                               !.execute = shouldMigrate, !.skipDelete = skipDelete,
                               !.pre = Snapshot, !.limit = limit, !.done = McMigrated,
                               !.dbFailed = ~fetchOk,
                               !.queue = ApplyLimit(findArtifactsToMigrate, limit)]
    IN  IF ~fetchOk THEN JobExit(run, 1)
        ELSE IF Len(run.queue) = 0 THEN JobExit(run, 0)
        ELSE IF ~shouldMigrate THEN JobExit(run, 0)
        ELSE run

McStart(shouldMigrate, limit, skipDelete, fetchOk) ==
    /\ JobCanStart
    /\ calls' = calls + 1
    /\ job' = McBegin(shouldMigrate, limit, skipDelete, fetchOk)
    /\ rg' = RgIdle
    /\ UNCHANGED <<db, store, relocations>>

McArtifact == job.queue[job.n]
McUrls == CloudinaryUrlsOf(McArtifact.row)
McUrl == McUrls[job.k]

\* uploadToSupabase: `${userId}/${artifactId}/${timestamp}-${filename}`, the
\* timestamp being that of the upload
McNewPath ==
    <<McArtifact.row.user_id, McArtifact.id,
      "t" \o ToString(calls) \o ToString(job.n) \o ToString(job.k),
      Filename(McUrl.path)>>

\* migrateArtifact: getFileExtension throws on a URL that does not parse; the
\* exception leaves the loop over the artifacts and the script exits with 1
McThrow ==
    /\ job.script = "migrate-cloudinary"
    /\ job.pc = "artifact"
    /\ job.n <= Len(job.queue)
    /\ job.k <= Len(McUrls)
    /\ ~parsesAsUrl(McUrl)
    /\ job' = JobExit(job, 1)
    /\ UNCHANGED <<db, store, rg, calls, relocations>>

\* migrateArtifact: downloadFromCloudinary of one URL
McDownload(downloadOk) ==
    /\ job.script = "migrate-cloudinary"
    /\ job.pc = "artifact"
    /\ job.n <= Len(job.queue)
    /\ job.k <= Len(McUrls)
    /\ parsesAsUrl(McUrl)
    /\ downloadOk => McUrl \in cloud
    /\ job' = IF downloadOk THEN [job EXCEPT !.pc = "upload"]
              ELSE [job EXCEPT !.errors = Append(@, <<"Failed to download", McUrl>>),
                               !.k = @ + 1]
    /\ UNCHANGED <<db, store, rg, calls, relocations>>

\* uploadToSupabase and the record of the mapping
McUpload(outcome) ==
    /\ job.script = "migrate-cloudinary"
    /\ job.pc = "upload"
    /\ outcome \in {"Error"} \cup (IF McNewPath \in blobs THEN {"AlreadyExists"} ELSE {"ok"})
    /\ blobs' = IF outcome = "ok" THEN blobs \cup {McNewPath} ELSE blobs
    /\ job' = IF outcome = "Error"
              THEN [job EXCEPT !.pc = "artifact", !.k = @ + 1,
                               !.errors = Append(@, <<"Failed to upload", McUrl>>)]
              ELSE [job EXCEPT !.urlMapping = Put(@, McUrl, getPublicUrl(McNewPath)),
                               !.movedCount = @ + 1,
                               !.pc = IF job.skipDelete THEN "artifact" ELSE "destroy",
                               !.k = IF job.skipDelete THEN @ + 1 ELSE @]
    /\ UNCHANGED <<db, cloud, rg, calls, relocations>>

\* deleteFromCloudinary, a failure being non-fatal
McDestroy(deleteOk) ==
    /\ job.script = "migrate-cloudinary"
    /\ job.pc = "destroy"
    /\ cloud' = IF deleteOk THEN cloud \ {McUrl} ELSE cloud
    /\ job' = [job EXCEPT !.pc = "artifact", !.k = @ + 1]
    /\ UNCHANGED <<db, blobs, rg, calls, relocations>>

\* the MigrationResult of the artifact, and on to the next one
McReturn(state) ==
    [state EXCEPT !.pc = "artifact", !.n = @ + 1, !.k = 1, !.j = 1,
                  !.urlMapping = <<>>, !.movedCount = 0, !.errors = <<>>,
                  !.dbFailed = FALSE,
                  !.results = Append(@, [id |-> state.queue[state.n].id,
                                         success |-> Len(state.errors) = 0,
                                         movedCount |-> state.movedCount,
                                         errors |-> state.errors,
                                         total |-> Len(CloudinaryUrlsOf(state.queue[state.n].row)),
                                         mapped |-> Len(state.urlMapping),
                                         dbFailed |-> state.dbFailed])]

\* migrateArtifact with an empty mapping: no update
McNothingMigrated ==
    /\ job.script = "migrate-cloudinary"
    /\ job.pc = "artifact"
    /\ job.n <= Len(job.queue)
    /\ job.k > Len(McUrls)
    /\ Len(job.urlMapping) = 0
    /\ job' = McReturn(job)
    /\ UNCHANGED <<db, store, rg, calls, relocations>>

\* updateArtifactUrls: the update of the artifact row, an error being logged
McUpdateArtifact(updateOk) ==
    /\ job.script = "migrate-cloudinary"
    /\ job.pc = "artifact"
    /\ job.n <= Len(job.queue)
    /\ job.k > Len(McUrls)
    /\ Len(job.urlMapping) > 0
    /\ artifacts' = IF updateOk
                    THEN [artifacts EXCEPT ![McArtifact.id] =
                            ApplyUpdate(@, updateArtifactUrlsData(McArtifact.row, job.urlMapping))]
                    ELSE artifacts
    /\ job' = [job EXCEPT !.pc = "user_media", !.j = 1, !.dbFailed = ~updateOk]
    /\ UNCHANGED <<user_media, artifact_media, store, rg, calls, relocations>>

\* updateArtifactUrls: one iteration of the user_media loop
McUserMedia(updateOk) ==
    /\ job.script = "migrate-cloudinary"
    /\ job.pc = "user_media"
    /\ job.j <= Len(job.urlMapping)
    /\ LET oldUrl == job.urlMapping[job.j][1]
           newUrl == job.urlMapping[job.j][2]
       IN  user_media' = IF updateOk
                            THEN {IF m.public_url = oldUrl
                                  THEN [m EXCEPT !.public_url = newUrl, !.storage_path = newUrl]
                                  ELSE m : m \in user_media}
                            ELSE user_media
    /\ job' = [job EXCEPT !.j = @ + 1, !.dbFailed = @ \/ ~updateOk]
    /\ UNCHANGED <<artifacts, artifact_media, store, rg, calls, relocations>>

McArtifactDone ==
    /\ job.script = "migrate-cloudinary"
    /\ job.pc = "user_media"
    /\ job.j > Len(job.urlMapping)
    /\ job' = McReturn(job)
    /\ UNCHANGED <<db, store, rg, calls, relocations>>

\* the summary, process.exit(0)
McFinish ==
    /\ job.script = "migrate-cloudinary"
    /\ job.pc = "artifact"
    /\ job.n > Len(job.queue)
    /\ job' = JobExit(job, 0)
    /\ UNCHANGED <<db, store, rg, calls, relocations>>

MaxLimit == 1

MigrateCloudinary ==
    \/ \E shouldMigrate \in BOOLEAN, limit \in 0..MaxLimit, skipDelete \in BOOLEAN,
          fetchOk \in BOOLEAN : McStart(shouldMigrate, limit, skipDelete, fetchOk)
    \/ McThrow
    \/ \E downloadOk \in BOOLEAN : McDownload(downloadOk)
    \/ \E outcome \in {"ok", "AlreadyExists", "Error"} : McUpload(outcome)
    \/ \E deleteOk \in BOOLEAN : McDestroy(deleteOk)
    \/ McNothingMigrated
    \/ \E updateOk \in BOOLEAN : McUpdateArtifact(updateOk)
    \/ \E updateOk \in BOOLEAN : McUserMedia(updateOk)
    \/ McArtifactDone
    \/ McFinish

\* --------------------------------- scripts/backfill-media-derivatives.ts

\* getCloudinaryTransformUrl: the transformations inserted after /upload/
getCloudinaryTransformUrl(url, transformations) ==
    [url EXCEPT !.path = <<Head(@), transformations>> \o Tail(@)]

\* generateDerivatives of a Cloudinary URL
generateDerivatives(url) ==
    [thumb |-> getCloudinaryTransformUrl(url, "w_400,h_400,c_fill"),
     medium |-> getCloudinaryTransformUrl(url, "w_1024,c_limit"),
     large |-> getCloudinaryTransformUrl(url, "w_1600,c_limit")]

\* the Cloudinary URLs of media_urls that have no entry in media_derivatives
MissingDerivatives(row) ==
    LET Missing(url) == isCloudinaryUrl(url) /\ ~Has(row.media_derivatives.entries, url)
    IN  SelectSeq(row.media_urls, Missing)

\* findArtifactsToBackfill
findArtifactsToBackfill ==
    LET ids == SeqOfIds({a \in ArtifactIds : Len(MissingDerivatives(artifacts[a])) > 0})
    IN  [x \in 1..Len(ids) |-> [id |-> ids[x], row |-> artifacts[ids[x]]]]

\* a loop that stores a fresh triple for every Cloudinary URL
RECURSIVE AddDerivatives_overwrites(_, _, _)
AddDerivatives_overwrites(urls, k, derivatives) ==
    IF k > Len(urls) THEN derivatives
    ELSE AddDerivatives_overwrites(urls, k + 1,
                                   Put(derivatives, urls[k], generateDerivatives(urls[k])))

\* backfillArtifact: { ...existingDerivatives } and an entry for each URL
\* that has none
RECURSIVE AddDerivatives(_, _, _)
AddDerivatives(urls, k, derivatives) ==
    IF k > Len(urls) THEN derivatives
    ELSE AddDerivatives(urls, k + 1,
                        IF Has(derivatives, urls[k]) THEN derivatives
                        ELSE Put(derivatives, urls[k], generateDerivatives(urls[k])))

\* a loop over every URL of media_urls
newDerivatives_any_url(row) ==
    AddDerivatives(row.media_urls, 1, row.media_derivatives.entries)

newDerivatives(row) ==
    AddDerivatives(SelectSeq(row.media_urls, isCloudinaryUrl), 1, row.media_derivatives.entries)

\* backfillMediaDerivatives: the scan, the limit; the preview ends here
BdStart(shouldBackfill, limit, fetchOk) ==
    /\ JobCanStart
    /\ calls' = calls + 1
    /\ LET run == [JobIdle EXCEPT !.script = "backfill-media-derivatives", !.fatal = ~fetchOk,
                                  !.pc = "artifact",
                                  !.execute = shouldBackfill, !.pre = Snapshot,
                                  !.queue = ApplyLimit(findArtifactsToBackfill, limit)]
       IN  job' = IF ~fetchOk THEN JobExit(run, 1)
                  ELSE IF Len(run.queue) = 0 THEN JobExit(run, 0)
                  ELSE IF ~shouldBackfill THEN JobExit(run, 0)
                  ELSE run
    /\ rg' = RgIdle
    /\ UNCHANGED <<db, store, relocations>>

\* backfillArtifact(artifact, false)
BdArtifact(updateOk) ==
    /\ job.script = "backfill-media-derivatives"
    /\ job.pc = "artifact"
    /\ job.n <= Len(job.queue)
    /\ LET artifact == job.queue[job.n]
           added == newDerivatives(artifact.row)
           addedCount == Len(added) - Len(artifact.row.media_derivatives.entries)
       IN  /\ artifacts' = IF addedCount > 0 /\ updateOk
                           THEN [artifacts EXCEPT ![artifact.id].media_derivatives = JsonObj(added)]
                           ELSE artifacts
           /\ job' = [job EXCEPT !.n = @ + 1,
                                 !.results = Append(@, [id |-> artifact.id,
                                                        success |-> addedCount = 0 \/ updateOk,
                                                        count |-> IF updateOk THEN addedCount ELSE 0])]
    /\ UNCHANGED <<user_media, artifact_media, store, rg, calls, relocations>>

\* the summary, process.exit(0)
BdFinish ==
    /\ job.script = "backfill-media-derivatives"
    /\ job.pc = "artifact"
    /\ job.n > Len(job.queue)
    /\ job' = JobExit(job, 0)
    /\ UNCHANGED <<db, store, rg, calls, relocations>>

BackfillDerivatives ==
    \/ \E shouldBackfill \in BOOLEAN, limit \in 0..MaxLimit, fetchOk \in BOOLEAN :
          BdStart(shouldBackfill, limit, fetchOk)
    \/ \E updateOk \in BOOLEAN : BdArtifact(updateOk)
    \/ BdFinish

\* ------------------------------------- scripts/014_backfill_user_media.sql

\* extract_storage_path: the path after the bucket, or else the filename
extract_storage_path(url) ==
    IF extractPathFromUrl(url) # NoPath THEN extractPathFromUrl(url)
    ELSE <<Filename(url.path)>>

\* gen_random_uuid(): an id no row of the table has
FreshId(rows) ==
    IF rows = {} THEN 1
    ELSE 1 + (CHOOSE x \in {r.id : r \in rows} : \A y \in {r.id : r \in rows} : y <= x)

\* a lookup that never finds the row
BuExistingMedia_none(media_url) == {}

\* SELECT id FROM user_media WHERE public_url = media_url LIMIT 1
BuExistingMedia(media_url) == {m \in user_media : m.public_url = media_url}

\* EXISTS (SELECT 1 FROM artifact_media WHERE artifact_id = .. AND media_id = ..)
BuLinkExists(artifactId, mediaId) ==
    \E link \in artifact_media : link.artifact_id = artifactId /\ link.media_id = mediaId

\* the database the previous run left, when that run was a backfill that
\* completed and changed nothing since
BuPrevious ==
    IF job.script = "014_backfill_user_media" /\ job.pc = "exited" /\ job.exit = 0
    THEN job.pre
    ELSE NullUrl

\* the DO block: the scan of the artifacts that have media_urls
BuStart ==
    /\ JobCanStart
    /\ calls' = calls + 1
    /\ LET ids == SeqOfIds({a \in ArtifactIds : Len(artifacts[a].media_urls) > 0})
       IN  job' = [JobIdle EXCEPT !.script = "014_backfill_user_media", !.pc = "artifact",
                                  !.execute = TRUE, !.pre = Snapshot, !.prev = BuPrevious,
                                  !.queue = [x \in 1..Len(ids) |->
                                               [id |-> ids[x], row |-> artifacts[ids[x]]]]]
    /\ rg' = RgIdle
    /\ UNCHANGED <<db, store, relocations>>

BuArtifact == job.queue[job.n]
BuUrl == BuArtifact.row.media_urls[job.k]

\* the user_media row the loop links: the existing one, or the one it inserts
BuMediaRow ==
    IF BuExistingMedia(BuUrl) # {}
    THEN CHOOSE m \in BuExistingMedia(BuUrl) : \A o \in BuExistingMedia(BuUrl) : m.id <= o.id
    ELSE [id |-> FreshId(user_media), user_id |-> BuArtifact.row.user_id,
          public_url |-> BuUrl, storage_path |-> extract_storage_path(BuUrl)]

\* the artifact_media row the loop inserts; sort_idx counts from 0
BuLinkRow ==
    [id |-> FreshId(artifact_media), artifact_id |-> BuArtifact.id,
     media_id |-> BuMediaRow.id, role |-> "gallery", sort_order |-> job.k - 1,
     is_primary |-> BuUrl = BuArtifact.row.thumbnail_url]

\* user_media_public_url_key and unique_artifact_media_order
BuViolation ==
    \/ /\ BuExistingMedia(BuUrl) = {}
       /\ \E m \in user_media : m.public_url = BuUrl
    \/ /\ ~BuLinkExists(BuArtifact.id, BuMediaRow.id)
       /\ \E link \in artifact_media :
             /\ link.artifact_id = BuArtifact.id
             /\ link.role = "gallery"
             /\ link.sort_order = job.k - 1

BuInLoop ==
    /\ job.script = "014_backfill_user_media"
    /\ job.pc = "artifact"
    /\ job.n <= Len(job.queue)
    /\ job.k <= Len(BuArtifact.row.media_urls)

\* one iteration of FOREACH media_url: the user_media row, then the link
BuMedia ==
    /\ BuInLoop
    /\ ~BuViolation
    /\ user_media' = user_media \cup {BuMediaRow}
    /\ artifact_media' = IF BuLinkExists(BuArtifact.id, BuMediaRow.id) THEN artifact_media
                         ELSE artifact_media \cup {BuLinkRow}
    /\ job' = [job EXCEPT !.k = @ + 1]
    /\ UNCHANGED <<artifacts, store, rg, calls, relocations>>

\* an INSERT that violates a unique constraint raises: the block is rolled
\* back and the migration fails
BuRaise ==
    /\ BuInLoop
    /\ BuViolation
    /\ user_media' = job.pre.user_media
    /\ artifact_media' = job.pre.artifact_media
    /\ job' = JobExit(job, 1)
    /\ UNCHANGED <<artifacts, store, rg, calls, relocations>>

\* END LOOP of FOREACH: the next artifact
BuNextArtifact ==
    /\ job.script = "014_backfill_user_media"
    /\ job.pc = "artifact"
    /\ job.n <= Len(job.queue)
    /\ job.k > Len(BuArtifact.row.media_urls)
    /\ job' = [job EXCEPT !.n = @ + 1, !.k = 1]
    /\ UNCHANGED <<db, store, rg, calls, relocations>>

\* 'Backfill complete!'
BuFinish ==
    /\ job.script = "014_backfill_user_media"
    /\ job.pc = "artifact"
    /\ job.n > Len(job.queue)
    /\ job' = JobExit(job, 0)
    /\ UNCHANGED <<db, store, rg, calls, relocations>>

BackfillUserMedia ==
    \/ BuStart
    \/ BuMedia
    \/ BuRaise
    \/ BuNextArtifact
    \/ BuFinish

\* ------------------------------------------------------ initial databases

Ta == getPublicUrl(<<Owner, "temp", "a">>)
Tb == getPublicUrl(<<Owner, "temp", "b">>)
Cld == [host |-> "cloudinary", path |-> <<"image", "c", "jpg">>]
Ext == [host |-> "other", path |-> <<"x">>]

\* the URLs a media_urls list is drawn from
UrlPool == {Ta, Tb, Ext}

MediaLists ==
    {list \in UNION {[1..n -> UrlPool] : n \in 0..MaxMedia} :
        \A k, m \in 1..Len(list) : k # m => list[k] # list[m]}

\* the generated text stored under a URL
TextOf(url) == <<"text of", url>>

ObjOf(keys) == JsonObj([k \in 1..Len(keys) |-> <<keys[k], TextOf(keys[k])>>])

Row(media, thumb, captions, summaries, transcripts) ==
    [user_id |-> Owner, media_urls |-> media, thumbnail_url |-> thumb,
     image_captions |-> captions, video_summaries |-> summaries,
     audio_transcripts |-> transcripts, media_derivatives |-> JsonNull]

\* image_captions, video_summaries, audio_transcripts and thumbnail_url of an
\* initial artifact
MetaChoices ==
    { <<JsonNull, ObjOf(<<>>), ObjOf(<<>>), NullUrl>>,
      <<ObjOf(<<Ta, Ext>>), ObjOf(<<Tb>>), ObjOf(<<Ta>>), Ta>>,
      <<ObjOf(<<Tb>>), ObjOf(<<>>), ObjOf(<<Cld>>), NullUrl>>,
      <<JsonNull, ObjOf(<<>>), ObjOf(<<Tb>>), Tb>> }

Media(id, url) == [id |-> id, user_id |-> Owner, public_url |-> url, storage_path |-> url]
Link(id, artifactId, mediaId, role) ==
    [id |-> id, artifact_id |-> artifactId, media_id |-> mediaId, role |-> role]

\* user_media rows, their artifact_media links, and the media_urls of A2, of
\* an initial database
GalleryChoices ==
    { <<{}, {}, <<>>>>,
      <<{Media(1, Ta)}, {Link(1, "A1", 1, "gallery")}, <<>>>>,
      <<{Media(1, Ta)}, {Link(1, "A1", 1, "gallery"), Link(2, "A2", 1, "gallery")}, <<Ta>>>>,
      <<{Media(1, Ta), Media(2, Tb)},
        {Link(1, "A1", 1, "gallery"), Link(2, "A1", 2, "gallery")}, <<>>>>,
      <<{Media(2, Tb)}, {Link(1, "A1", 2, "gallery")}, <<Ta>>>> }

InitDb ==
    \E media \in MediaLists, meta \in MetaChoices, gallery \in GalleryChoices :
        /\ artifacts = [a \in ArtifactIds |->
                          IF a = "A1" THEN Row(media, meta[4], meta[1], meta[2], meta[3])
                          ELSE Row(gallery[3], NullUrl, JsonNull, ObjOf(<<>>), ObjOf(<<>>))]
        /\ user_media = gallery[1]
        /\ artifact_media = gallery[2]
        /\ blobs = {extractPathFromUrl(Ta), extractPathFromUrl(Tb)}
        /\ cloud = {Cld}

Init ==
    /\ InitDb
    /\ rg = RgIdle
    /\ job = JobIdle
    /\ calls = 0
    /\ relocations = {}

Next == Reorganize \/ MigrateTempMedia

Spec == Init /\ [][Next]_vars

\* ------------------------------------------------- the rewrite, in isolation
\* The three rewrites of an artifact's references, applied to a row and a
\* URL mapping drawn from bounded sets, once and then again.

MaxMapping == 2

\* the row after the update; no update is made for an empty mapping
Rewritten(script, row, urlMapping) ==
    IF Len(urlMapping) = 0 THEN row
    ELSE CASE script = "reorganize" ->
                ApplyUpdate(row, reorganizeUpdateData(row, urlMapping))
           [] script = "migrate-temp-media" ->
                ApplyUpdate(row, migrateTempUpdateData(row, urlMapping))
           [] OTHER ->
                ApplyUpdate(row, updateArtifactUrlsData(row, urlMapping))

Na == getPublicUrl(<<Owner, "A1", "a">>)

RewritePool == {Ta, Na, Cld}

RewriteMediaLists ==
    {list \in UNION {[1..n -> RewritePool] : n \in 0..MaxMedia} :
        \A k, m \in 1..Len(list) : k # m => list[k] # list[m]}

\* the URL mappings: up to MaxMapping entries with distinct keys
RewriteMappings ==
    {m \in UNION {[1..n -> RewritePool \X RewritePool] : n \in 0..MaxMapping} :
        /\ \A k \in 1..Len(m) : m[k][1] # m[k][2]
        /\ \A k, l \in 1..Len(m) : k # l => m[k][1] # m[l][1]}

RewriteCaptions ==
    {JsonNull, ObjOf(<<>>), ObjOf(<<Ta>>), ObjOf(<<Na, Ta>>), ObjOf(<<Ta, Na>>),
     ObjOf(<<Cld, Ta>>)}

InitRewrite ==
    /\ \E media \in RewriteMediaLists, captions \in RewriteCaptions,
          summaries \in {ObjOf(<<>>), ObjOf(<<Ta>>)}, thumb \in {NullUrl, Ta},
          mapping \in RewriteMappings,
          script \in {"reorganize", "migrate-temp-media", "migrate-cloudinary"} :
            /\ artifacts = [a \in ArtifactIds |->
                              Row(media, thumb, captions, summaries, JsonNull)]
            /\ job = [JobIdle EXCEPT !.pc = "rewrite", !.script = script,
                                     !.urlMapping = mapping,
                                     !.pre = Row(media, thumb, captions, summaries, JsonNull)]
    /\ user_media = {}
    /\ artifact_media = {}
    /\ blobs = {}
    /\ cloud = {}
    /\ rg = RgIdle
    /\ calls = 0
    /\ relocations = {}

\* one application of the rewrite of script to the row A1
Rewrite(script) ==
    /\ job.pc = "rewrite"
    /\ job.script = script
    /\ Len(job.results) < 2
    /\ artifacts' = [artifacts EXCEPT !["A1"] = Rewritten(script, @, job.urlMapping)]
    /\ job' = [job EXCEPT !.results = Append(@, artifacts'["A1"])]
    /\ UNCHANGED <<user_media, artifact_media, store, rg, calls, relocations>>

RewriteReorganize == Rewrite("reorganize")
RewriteMigrateTemp == Rewrite("migrate-temp-media")
RewriteCloudinary == Rewrite("migrate-cloudinary")

NextRewrite == RewriteReorganize \/ RewriteMigrateTemp \/ RewriteCloudinary

SpecRewrite == InitRewrite /\ [][NextRewrite]_vars

\* ------------------------------------------- the batch scripts, in isolation

Cld2 == [host |-> "cloudinary", path |-> <<"video", "d", "mp4">>]

\* an object-store URL whose blob is gone
Dead == getPublicUrl(<<Owner, "A1", "gone">>)

\* a Cloudinary URL stored without its scheme, which new URL() rejects
CldBad == [host |-> "cloudinary", path |-> <<"no-scheme", "e", "jpg">>]

BatchRow(media, thumb, summaries, derivatives) ==
    [Row(media, thumb, ObjOf(media), ObjOf(summaries), JsonNull)
        EXCEPT !.media_derivatives = derivatives]

\* media_urls and the keys of video_summaries of A2 in an initial database:
\* media of its own, a medium of the library shared with A1, and a summary
\* kept for a medium that left the list
BatchSecond ==
    { <<<<>>, <<>>>>, <<<<Cld2>>, <<>>>>, <<<<Cld>>, <<Dead>>>> }

\* user_media rows and their artifact_media links of an initial database
BatchTables ==
    { <<{}, {}>>,
      <<{Media(1, Ta), Media(2, Dead)},
        {Link(1, "A1", 1, "gallery"), Link(2, "A1", 2, "gallery")}>>,
      <<{Media(3, Cld)}, {Link(1, "A1", 3, "gallery"), Link(2, "A2", 3, "gallery")}>> }

\* a triple stored at upload time, with the transformations of that time
StoredDerivatives(url) ==
    [thumb |-> getCloudinaryTransformUrl(url, "w_200,h_200,c_fill"),
     medium |-> getCloudinaryTransformUrl(url, "w_800,c_limit"),
     large |-> getCloudinaryTransformUrl(url, "w_1600,c_limit")]

\* thumbnail_url and media_derivatives of A1 in an initial database
BatchCover ==
    { <<NullUrl, JsonNull>>, <<Cld, JsonObj(<<<<Cld, StoredDerivatives(Cld)>>>>)>> }

InitBatch ==
    /\ \E media \in {<<Cld, Ta>>, <<Ta, Dead>>, <<Cld, Cld2>>, <<CldBad>>}, cover \in BatchCover,
          second \in BatchSecond, tables \in BatchTables :
            /\ artifacts = [a \in ArtifactIds |->
                              IF a = "A1" THEN BatchRow(media, cover[1], <<>>, cover[2])
                              ELSE BatchRow(second[1], NullUrl, second[2], JsonNull)]
            /\ user_media = tables[1]
            /\ artifact_media = tables[2]
    /\ blobs = {extractPathFromUrl(Ta), extractPathFromUrl(Tb)}
    /\ cloud = {Cld, Cld2}
    /\ rg = RgIdle
    /\ job = JobIdle
    /\ calls = 0
    /\ relocations = {}

NextBatch ==
    \/ CleanupOrphanedMedia
    \/ MigrateCloudinary
    \/ MigrateTempMedia
    \/ BackfillDerivatives

SpecBatch == InitBatch /\ [][NextBatch]_vars

\* ---- databases with URLs of no known backend, for reorganize, the
\* Cloudinary migrator and the derivative backfill

\* media_urls of A1
UnknownMedia == { <<Ta, Ext>>, <<Ext, Cld>>, <<CldBad, Ext>>, <<Ext>> }

\* image_captions and thumbnail_url of A1
UnknownMeta ==
    { <<ObjOf(<<Ext, Ta>>), Ext>>, <<JsonNull, NullUrl>>, <<ObjOf(<<Ext>>), Cld>> }

\* user_media rows and their artifact_media links
UnknownTables ==
    { <<{}, {}>>,
      <<{Media(1, Ext), Media(2, Ta)},
        {Link(1, "A1", 1, "gallery"), Link(2, "A1", 2, "gallery")}>> }

InitUnknown ==
    /\ \E media \in UnknownMedia, meta \in UnknownMeta, tables \in UnknownTables :
          /\ artifacts = [a \in ArtifactIds |->
                            IF a = "A1"
                            THEN Row(media, meta[2], meta[1], ObjOf(<<>>), JsonNull)
                            ELSE Row(<<Ext>>, NullUrl, JsonNull, ObjOf(<<Ext>>), JsonNull)]
          /\ user_media = tables[1]
          /\ artifact_media = tables[2]
    /\ blobs = {extractPathFromUrl(Ta), extractPathFromUrl(Tb)}
    /\ cloud = {Cld}
    /\ rg = RgIdle
    /\ job = JobIdle
    /\ calls = 0
    /\ relocations = {}

NextUnknown ==
    \/ Reorganize
    \/ MigrateCloudinary
    \/ BackfillDerivatives

SpecUnknown == InitUnknown /\ [][NextUnknown]_vars

\* ---- the Cloudinary migrator run again and again with --migrate --limit=N

\* a Cloudinary URL whose original no longer exists: its download fails
CldGone == [host |-> "cloudinary", path |-> <<"image", "gone", "jpg">>]

\* the operator runs the script once more, with the same flags; runs are not
\* counted
McRerun(limit, skipDelete) ==
    /\ job.pc \in {"idle", "exited"}
    /\ job.pc = "exited" => (limit = job.limit /\ skipDelete = job.skipDelete)
    /\ job' = McBegin(TRUE, limit, skipDelete, TRUE)
    /\ UNCHANGED <<db, store, rg, calls, relocations>>

\* a run in which nothing fails but what the data makes fail: a download
\* fails when the original is gone (every URL of these databases parses)
NextRepeat ==
    \/ \E limit \in 1..(MaxLimit + 1), skipDelete \in BOOLEAN : McRerun(limit, skipDelete)
    \/ \E downloadOk \in BOOLEAN : McDownload(downloadOk) /\ (downloadOk <=> McUrl \in cloud)
    \/ McUpload("ok")
    \/ McUpload("AlreadyExists")
    \/ McDestroy(TRUE)
    \/ McNothingMigrated
    \/ McUpdateArtifact(TRUE)
    \/ McUserMedia(TRUE)
    \/ McArtifactDone
    \/ McFinish

\* media_urls of A1: sound, or with a missing original
RepeatMedia == { <<Cld>>, <<CldGone>>, <<CldGone, Cld>> }

InitRepeat ==
    /\ \E media \in RepeatMedia, thumb \in {NullUrl, Cld2}, tables \in BatchTables :
          /\ artifacts = [a \in ArtifactIds |->
                            IF a = "A1" THEN BatchRow(media, NullUrl, <<>>, JsonNull)
                            ELSE BatchRow(<<Cld2>>, thumb, <<>>, JsonNull)]
          /\ user_media = tables[1]
          /\ artifact_media = tables[2]
    /\ blobs = {extractPathFromUrl(Ta), extractPathFromUrl(Tb)}
    /\ cloud = {Cld, Cld2}
    /\ rg = RgIdle
    /\ job = JobIdle
    /\ calls = 0
    /\ relocations = {}

\* the script's steps go on, and the operator keeps running it
SpecRepeat == InitRepeat /\ [][NextRepeat]_vars /\ WF_vars(NextRepeat)

\* ---- two reorganizeArtifactMedia calls for one artifact, in progress at once

\* the call whose steps are taken is rg; the other call waits in job
RaceArtifact == "A1"

\* a request arrives: the call starts with the reads of lines 19-45
RaceStart ==
    /\ rg.pc = "idle"
    /\ calls' = calls + 1
    /\ rg' = RgBegin(Owner, RaceArtifact, TRUE)
    /\ UNCHANGED <<db, store, job, relocations>>

\* the server turns from one call to the other
RaceSwitch ==
    /\ rg.pc # "idle"
    /\ job.pc # "done"
    /\ rg' = job
    /\ job' = rg
    /\ UNCHANGED <<db, store, calls, relocations>>

\* the steps of a call; no query or update fails, a delete may, and a copy
\* fails only for a source that the other call has deleted
NextRace ==
    \/ RaceStart
    \/ RaceSwitch
    \/ RgGallery(TRUE)
    \/ RgSkip
    \/ \E outcome \in {"ok", "AlreadyExists", "Error"} :
          /\ RgCopy(outcome)
          /\ outcome = "Error" => extractPathFromUrl(RgUrl) \notin blobs
    \/ \E deleteOk \in BOOLEAN : RgDelete(deleteOk)
    \/ RgNothingMoved
    \/ RgUpdateArtifact(TRUE)
    \/ RgUserMedia(TRUE)
    \/ RgDone

InitRace ==
    /\ InitDb
    /\ rg = RgIdle
    /\ job = RgIdle
    /\ calls = 0
    /\ relocations = {}

SpecRace == InitRace /\ [][NextRace]_vars

\* ---- the image analysis route (POST): captions, with a reorganize in progress

MAX_IMAGES == 5

\* the words the URL is searched for; the files a and b are a.jpg and b.png
ImageWords == {"a", "b", "jpg", "jpeg", "png", "gif", "webp", "bmp", "image"}

isImageUrl(url) == \E k \in 1..Len(url.path) : url.path[k] \in ImageWords

\* the request before it arrives; job holds its locals
AnIdle ==
    [pc |-> "idle", artifactId |-> "A1", imageUrls |-> <<>>, k |-> 1,
     captions |-> <<>>, status |-> 0]

\* media_urls.filter(isImageUrl).slice(0, MAX_IMAGES)
ImageUrlsOf(media_urls) ==
    LET images == SelectSeq(media_urls, isImageUrl)
    IN  SubSeq(images, 1, IF Len(images) < MAX_IMAGES THEN Len(images) ELSE MAX_IMAGES)

\* load the artifact and take its image URLs; 404 and 400 returns
AnStart(artifactId, fetchOk) ==
    /\ job.pc = "idle"
    /\ job' = IF ~fetchOk
                 THEN [job EXCEPT !.pc = "returned", !.artifactId = artifactId, !.status = 404]
               ELSE IF Len(ImageUrlsOf(artifacts[artifactId].media_urls)) = 0
                 THEN [job EXCEPT !.pc = "returned", !.artifactId = artifactId, !.status = 400]
               ELSE [job EXCEPT !.pc = "caption", !.artifactId = artifactId,
                                !.imageUrls = ImageUrlsOf(artifacts[artifactId].media_urls)]
    /\ UNCHANGED <<db, store, rg, calls, relocations>>

\* one turn of the caption loop: the model's text, or the failure text
AnCaption(generated) ==
    /\ job.pc = "caption"
    /\ job.k <= Len(job.imageUrls)
    /\ LET imageUrl == job.imageUrls[job.k]
           text == IF generated THEN TextOf(imageUrl) ELSE <<"Caption generation failed">>
       IN  job' = [job EXCEPT !.captions = Put(@, imageUrl, text), !.k = @ + 1]
    /\ UNCHANGED <<db, store, rg, calls, relocations>>

\* save the captions: the column is replaced by the map just built
AnSave(updateOk) ==
    /\ job.pc = "caption"
    /\ job.k > Len(job.imageUrls)
    /\ artifacts' = IF updateOk
                      THEN [artifacts EXCEPT ![job.artifactId].image_captions =
                                                 JsonObj(job.captions)]
                    ELSE artifacts
    /\ job' = [job EXCEPT !.pc = "returned", !.status = IF updateOk THEN 200 ELSE 500]
    /\ UNCHANGED <<user_media, artifact_media, store, rg, calls, relocations>>

\* the analysis and one reorganize call of the same artifact; requests that
\* find the artifact, and updates that succeed
NextAnalyze ==
    \/ AnStart(RaceArtifact, TRUE)
    \/ \E generated \in BOOLEAN : AnCaption(generated)
    \/ AnSave(TRUE)
    \/ RaceStart
    \/ RgGallery(TRUE)
    \/ RgSkip
    \/ \E outcome \in {"ok", "AlreadyExists"} : RgCopy(outcome)
    \/ \E deleteOk \in BOOLEAN : RgDelete(deleteOk)
    \/ RgNothingMoved
    \/ RgUpdateArtifact(TRUE)
    \/ RgUserMedia(TRUE)
    \/ RgDone

\* databases whose captions are keyed by image URLs of media_urls
InitAnalyze ==
    /\ \E media \in MediaLists, captioned \in BOOLEAN, gallery \in {1, 2}, thumb \in {NullUrl, Ta} :
          /\ artifacts = [a \in ArtifactIds |->
                            IF a = "A1"
                              THEN Row(media, thumb,
                                       IF captioned THEN ObjOf(ImageUrlsOf(media)) ELSE JsonNull,
                                       ObjOf(<<>>), ObjOf(<<>>))
                            ELSE Row(<<>>, NullUrl, JsonNull, ObjOf(<<>>), ObjOf(<<>>))]
          /\ user_media = IF gallery = 1 THEN {} ELSE {Media(1, Ta)}
          /\ artifact_media = IF gallery = 1 THEN {} ELSE {Link(1, "A1", 1, "gallery")}
    /\ blobs = {extractPathFromUrl(Ta), extractPathFromUrl(Tb)}
    /\ cloud = {Cld}
    /\ rg = RgIdle
    /\ job = AnIdle
    /\ calls = 0
    /\ relocations = {}

SpecAnalyze == InitAnalyze /\ [][NextAnalyze]_vars

\* ---- databases before the user_media backfill

\* a gallery link as the application creates it, with its sort_order
GalleryLink(id, artifactId, mediaId, sortOrder) ==
    [id |-> id, artifact_id |-> artifactId, media_id |-> mediaId,
     role |-> "gallery", sort_order |-> sortOrder, is_primary |-> FALSE]

\* media_urls of A1 and A2
BackfillMedia ==
    { <<<<Ta, Tb>>, <<>>>>, <<<<Ta, Cld>>, <<Ta>>>>, <<<<Cld>>, <<Cld, Tb>>>>,
      <<<<Ta, Ta>>, <<Ext>>>>, <<<<Tb, Ta>>, <<Ta, Tb>>>>, <<<<>>, <<>>>> }

\* user_media rows and artifact_media links that exist before the backfill
BackfillTables ==
    { <<{}, {}>>,
      <<{Media(1, Ta)}, {}>>,
      <<{Media(1, Ta)}, {GalleryLink(1, "A1", 1, 0)}>>,
      <<{Media(1, Ta), Media(2, Tb)}, {GalleryLink(1, "A1", 2, 0), GalleryLink(2, "A2", 1, 1)}>> }

InitBackfill ==
    /\ \E media \in BackfillMedia, thumb \in {NullUrl, Ta}, tables \in BackfillTables :
          /\ artifacts = [a \in ArtifactIds |->
                            IF a = "A1"
                            THEN Row(media[1], thumb, JsonNull, ObjOf(<<>>), JsonNull)
                            ELSE Row(media[2], NullUrl, JsonNull, ObjOf(<<>>), JsonNull)]
          /\ user_media = tables[1]
          /\ artifact_media = tables[2]
    /\ blobs = {extractPathFromUrl(Ta), extractPathFromUrl(Tb)}
    /\ cloud = {Cld}
    /\ rg = RgIdle
    /\ job = JobIdle
    /\ calls = 0
    /\ relocations = {}

NextBackfill == BackfillUserMedia

SpecBackfill == InitBackfill /\ [][NextBackfill]_vars

\* ============================================================ properties

JsonKeys(json) == Keys(json.entries)

\* the URLs an artifact row refers to
ArtifactRefs(row) ==
    Range(row.media_urls)
      \cup JsonKeys(row.image_captions)
      \cup JsonKeys(row.video_summaries)
      \cup JsonKeys(row.audio_transcripts)
      \cup (IF row.thumbnail_url = NullUrl THEN {} ELSE {row.thumbnail_url})

\* the user_media rows linked to an artifact
LinkedMedia(artifactId) ==
    {m \in user_media :
        \E link \in artifact_media : link.artifact_id = artifactId /\ link.media_id = m.id}

\* the URL denotes a blob that exists
Live(url) ==
    CASE isSupabaseStorageUrl(url) -> extractPathFromUrl(url) \in blobs
      [] isCloudinaryUrl(url) -> url \in cloud
      [] OTHER -> TRUE

\* the new-location URLs a temporary URL can be relocated to
CanonicalUrls(url) ==
    {getPublicUrl(DestPath(url, u, a)) : u \in Users, a \in ArtifactIds}

IsCanonicalUrl(url) == isSupabaseStorageUrl(url) /\ ~isTempUrl(url)

\* a blob referenced by its old URL in one place of the row and by its new
\* URL in another
SplitReferences(row) ==
    \E u \in ArtifactRefs(row) :
        isTempUrl(u) /\ CanonicalUrls(u) \cap ArtifactRefs(row) # {}

\* C1: when reorganizeArtifactMedia returns, whichever relocations failed, no
\* blob of the artifact is referenced by its old URL in one of media_urls,
\* the JSON-map keys and thumbnail_url and by its new URL in another.
C1_NoSplitReferences ==
    rg.pc = "done" => ~SplitReferences(artifacts[rg.artifactId])

\* a call that relocated one blob, failed on another, and rewrote the row
C1_Witness ==
    /\ rg.pc = "done"
    /\ rg.result.success
    /\ rg.movedCount > 0
    /\ Len(rg.errors) > 0
    /\ artifacts[rg.artifactId] # rg.pre.artifacts[rg.artifactId]
    /\ \E u \in ArtifactRefs(artifacts[rg.artifactId]) : isTempUrl(u)
    /\ \E u \in ArtifactRefs(artifacts[rg.artifactId]) : IsCanonicalUrl(u)

\* every URL the database refers to
DbUrls ==
    UNION {ArtifactRefs(artifacts[a]) : a \in ArtifactIds}
      \cup {m.public_url : m \in user_media}

\* the destinations recorded by the running operations for rewriting
PendingUrls ==
    {rg.urlMapping[k][2] : k \in 1..Len(rg.urlMapping)}
      \cup {job.urlMapping[k][2] : k \in 1..Len(job.urlMapping)}

\* C2: in reorganize and in the temp-media migrator, at every moment every
\* new-location URL stored in a database reference, or recorded for being
\* written into one, denotes a blob that exists at the destination.
C2_NewUrlsAreConfirmed ==
    \A u \in DbUrls \cup PendingUrls : IsCanonicalUrl(u) => Live(u)

\* the migrator has written new URLs into an artifact and into user_media
C2_Witness ==
    /\ job.script = "migrate-temp-media"
    /\ job.pc = "exited"
    /\ \E a \in ArtifactIds : \E u \in ArtifactRefs(artifacts[a]) : IsCanonicalUrl(u)
    /\ \E m \in user_media : IsCanonicalUrl(m.public_url)
    /\ \E r \in relocations : r.copy = "AlreadyExists"

\* the call had no effect on the database or on the object store
RgNoEffects ==
    /\ rg.pre = Snapshot
    /\ rg.movedCount = 0
    /\ Len(rg.urlMapping) = 0

RgCallerMayNot ==
    rg.caller = NoUser \/ artifacts[rg.artifactId].user_id # rg.caller

\* C4 as stated: a caller who is not authenticated or does not own the
\* artifact gets the error Unauthorized, and the call has no effects.
C4_Unauthorized ==
    (rg.pc = "done" /\ RgCallerMayNot)
        => (rg.result.error = "Unauthorized" /\ RgNoEffects)

\* C4: a caller who is not authenticated gets the error Unauthorized; a
\* caller who does not own the artifact gets Unauthorized, or Artifact not
\* found when the row cannot be read; in both cases the call fails and has
\* no effects: no blob copied or deleted, no row of artifacts or user_media
\* written.
C4_RefusedWithoutEffects ==
    (rg.pc = "done" /\ RgCallerMayNot)
        => /\ ~rg.result.success
           /\ rg.result.error \in {"Unauthorized", "Artifact not found"}
           /\ rg.caller = NoUser => rg.result.error = "Unauthorized"
           /\ RgNoEffects

\* a signed-in user who is not the owner is refused on an artifact that has
\* temporary media to move
C4_Witness ==
    /\ rg.pc = "done"
    /\ rg.caller \in Users
    /\ artifacts[rg.artifactId].user_id # rg.caller
    /\ rg.result.error = "Unauthorized"
    /\ \E u \in Range(artifacts[rg.artifactId].media_urls) : NeedsMove(u)

\* the call met no failure: every query, relocation and update succeeded
RgAllSucceeded ==
    /\ rg.pc = "done"
    /\ rg.result.success
    /\ ~rg.failed

\* the user_media rows linked to the artifact in the gallery role when the
\* call started
RgGalleryBefore ==
    {m \in rg.pre.user_media :
        \E link \in rg.pre.artifact_media :
            /\ link.artifact_id = rg.artifactId
            /\ link.role = "gallery"
            /\ link.media_id = m.id}

\* the URL of the canonical path {owner}/{artifact}/{filename}
RgCanonical(url) ==
    getPublicUrl(DestPath(url, rg.pre.artifacts[rg.artifactId].user_id, rg.artifactId))

\* the temporary URLs the call had to relocate
RgRelocated ==
    {u \in Range(rg.pre.artifacts[rg.artifactId].media_urls)
             \cup {m.public_url : m \in RgGalleryBefore} : NeedsMove(u)}

RgRenamed(before, after) ==
    \A key \in JsonKeys(before) :
        key \in RgRelocated =>
            /\ key \notin JsonKeys(after)
            /\ RgCanonical(key) \in JsonKeys(after)
            /\ Get(after.entries, RgCanonical(key)) = Get(before.entries, key)

C6_FailuresReported ==
    (rg.pc = "done" /\ rg.result.success)
        => /\ rg.umFailed # {} => Len(rg.result.errors) > 0
           /\ Len(rg.result.errors) = 0 =>
                \A k \in 1..Len(rg.urlMapping) :
                    /\ rg.urlMapping[k][1] \notin ArtifactRefs(artifacts[rg.artifactId])
                    /\ \A m \in user_media :
                          m.user_id = rg.caller => m.public_url # rg.urlMapping[k][1]

\* every reference of the artifact denoted an existing blob when the first
\* of the stopped calls began
RgFirstIntact ==
    \A u \in ArtifactRefs(rg.first.artifacts[rg.artifactId])
              \cup {m.public_url :
                      m \in {x \in rg.first.user_media :
                               \E link \in rg.first.artifact_media :
                                   /\ link.artifact_id = rg.artifactId
                                   /\ link.media_id = x.id}} :
        CASE isSupabaseStorageUrl(u) -> extractPathFromUrl(u) \in rg.first.blobs
          [] isCloudinaryUrl(u) -> u \in rg.first.cloud
          [] OTHER -> TRUE

\* C3: starting from an artifact whose references all denote existing blobs,
\* a reorganize that follows a reorganize of the same artifact which stopped
\* after blobs were copied or moved, and that meets no new failure, ends with
\* every reference of the artifact (media_urls, JSON-map keys, thumbnail_url,
\* linked user_media.public_url) denoting an existing blob.
C3_RerunRepairs ==
    (/\ RgAllSucceeded
     /\ rg.retry
     /\ RgFirstIntact)
        => \A u \in ArtifactRefs(artifacts[rg.artifactId])
                      \cup {m.public_url : m \in LinkedMedia(rg.artifactId)} : Live(u)

\* a rerun that starts with a reference to a deleted temporary blob, finds
\* the destination already present and completes
C3_Witness ==
    /\ RgAllSucceeded
    /\ rg.retry
    /\ RgFirstIntact
    /\ \E u \in ArtifactRefs(rg.pre.artifacts[rg.artifactId]) :
          isTempUrl(u) /\ extractPathFromUrl(u) \notin rg.pre.blobs
    /\ \E r \in relocations : r.copy = "AlreadyExists"
    /\ rg.movedCount > 0

\* C9: relocating a temporary blob to the canonical destination it was
\* already relocated to yields the same destination URL, and the relocation
\* that finds the destination present reports no error.
C9_RelocationIdempotent ==
    \A second \in relocations :
        second.copy = "AlreadyExists" =>
            /\ ~second.reported
            /\ \A first \in relocations :
                  (/\ first.copy = "ok"
                   /\ first.url = second.url
                   /\ first.artifactId = second.artifactId)
                      => second.publicUrl = first.publicUrl

\* the migrator relocates a blob a second time and finds the destination
C9_Witness ==
    /\ job.script = "migrate-temp-media"
    /\ \E first, second \in relocations :
          /\ first.copy = "ok"
          /\ second.copy = "AlreadyExists"
          /\ first.url = second.url
          /\ first.artifactId = second.artifactId
          /\ Has(job.urlMapping, second.url)
          /\ Get(job.urlMapping, second.url) = first.publicUrl

\* ---- the rewrite laws

\* JSON objects are equal when they have the same entries
SameJson(x, y) ==
    /\ x.isNull = y.isNull
    /\ Range(x.entries) = Range(y.entries)

SameGraph(x, y) ==
    /\ x.media_urls = y.media_urls
    /\ x.thumbnail_url = y.thumbnail_url
    /\ SameJson(x.image_captions, y.image_captions)
    /\ SameJson(x.video_summaries, y.video_summaries)
    /\ SameJson(x.audio_transcripts, y.audio_transcripts)

\* the key, with its value, is in both objects or in neither
KeyUnchanged(before, after, url) ==
    url \in JsonKeys(before) =>
        /\ url \in JsonKeys(after)
        /\ Get(after.entries, url) = Get(before.entries, url)

\* every occurrence of url in the row before is an occurrence in the row after
OccurrencesUnchanged(before, after, url) ==
    /\ Len(after.media_urls) = Len(before.media_urls)
    /\ \A k \in 1..Len(before.media_urls) :
          before.media_urls[k] = url => after.media_urls[k] = url
    /\ before.thumbnail_url = url => after.thumbnail_url = url
    /\ KeyUnchanged(before.image_captions, after.image_captions, url)
    /\ KeyUnchanged(before.video_summaries, after.video_summaries, url)
    /\ KeyUnchanged(before.audio_transcripts, after.audio_transcripts, url)

\* C7: for any row and any URL mapping, every occurrence of a URL that is not
\* a key of the mapping (in media_urls, as a key of a JSON map with its
\* value, in thumbnail_url) is unchanged by the rewrite.
C7_RewriteIdentity ==
    (job.pc = "rewrite" /\ Len(job.results) >= 1)
        => \A url \in RewritePool :
              ~Has(job.urlMapping, url) =>
                  OccurrencesUnchanged(job.pre, job.results[1], url)

\* no value of the mapping is one of its keys
NoChain(urlMapping) ==
    \A k, l \in 1..Len(urlMapping) : urlMapping[k][2] # urlMapping[l][1]

JobWithoutExecute ==
    /\ job.script \in {"cleanup-orphaned-media", "migrate-cloudinary",
                       "migrate-temp-media", "backfill-media-derivatives"}
    /\ \/ ~job.execute
       \/ job.script = "cleanup-orphaned-media" /\ job.dryRun

\* C10: a batch script started without its execute flag, and the orphan
\* cleanup started with --dry-run even together with --delete, writes
\* nothing: no row of artifacts, user_media or artifact_media and no blob of
\* the object store or of Cloudinary differs from what it was at the start.
C10_DryRunWritesNothing ==
    JobWithoutExecute => job.pre = Snapshot

\* an orphan cleanup with --delete and --dry-run that found a broken
\* user_media row and a broken legacy URL
C10_Witness ==
    /\ job.script = "cleanup-orphaned-media"
    /\ job.pc = "exited"
    /\ job.execute
    /\ job.dryRun
    /\ \E m \in user_media : ~Live(m.public_url)
    /\ \E u \in LegacyUrls : ~Live(u)

\* ---- the orphan cleanup

\* the orphan cleanup is deleting the user_media rows it selected
OcDeletingMedia ==
    /\ job.script = "cleanup-orphaned-media"
    /\ job.pc = "delete_media"

\* the probe of the URL gave a definite answer, and the answer was not found
ConfirmedGone(url) ==
    /\ url \notin job.failing
    /\ ~Live(url)

\* C11: a user_media row is deleted by the orphan cleanup only if, at the
\* moment of the deletion, no artifact_media row references it and its blob
\* has been confirmed not to exist.
C11_DeletedOnlyWhenOrphaned ==
    [][OcDeletingMedia =>
         \A m \in user_media \ user_media' :
             /\ \A link \in artifact_media : link.media_id # m.id
             /\ ConfirmedGone(m.public_url)]_vars

\* the rows of a table, at the start of the run, that carry the URL
OcMediaWith(url) == {m \in job.pre.user_media : m.public_url = url}

\* the artifact row refers to the URL in the same places as at the start
OcRefsKept(a, url) ==
    LET before == job.pre.artifacts[a]
        after == artifacts[a]
        At(row) == {k \in 1..Len(row.media_urls) : row.media_urls[k] = url}
    IN  /\ At(before) = At(after)
        /\ before.thumbnail_url = url => after.thumbnail_url = url
        /\ url \in JsonKeys(before.image_captions) => url \in JsonKeys(after.image_captions)
        /\ url \in JsonKeys(before.video_summaries) => url \in JsonKeys(after.video_summaries)
        /\ url \in JsonKeys(before.audio_transcripts) => url \in JsonKeys(after.audio_transcripts)

\* C12: in the orphan cleanup a probe that fails on the network leaves the
\* references of its item unchanged: no user_media row with that URL and no
\* artifact_media link to such a row is deleted, and no artifact loses or
\* rewrites a reference to that URL.
C12_ProbeFailureLeavesReferences ==
    job.script = "cleanup-orphaned-media" =>
        \A url \in job.failing :
            /\ OcMediaWith(url) \subseteq user_media
            /\ \A link \in job.pre.artifact_media :
                  (\E m \in OcMediaWith(url) : m.id = link.media_id)
                      => link \in artifact_media
            /\ \A a \in ArtifactIds : OcRefsKept(a, url)

\* C13: in destructive mode no user_media row is deleted while an
\* artifact_media link selected for deletion that points at it still exists.
C13_LinksDeletedFirst ==
    [][OcDeletingMedia =>
         \A m \in user_media \ user_media' :
             \A link \in artifact_media :
                 link.id \in job.links => link.media_id # m.id]_vars

\* the destructive cleanup ran to its end, the legacy-table cleanup included,
\* and no query or update of the run failed
OcLegacyCompleted ==
    /\ job.script = "cleanup-orphaned-media"
    /\ job.pc = "exited"
    /\ job.execute
    /\ ~job.dryRun
    /\ ~job.dbFailed
    /\ job.failing = {}
    /\ Len(job.results) > 0

\* C14: after the destructive legacy-table cleanup has completed without
\* update errors, no artifact contains a URL that fails liveness in its
\* media_urls, in its thumbnail_url, or as a key of image_captions,
\* video_summaries or audio_transcripts.
C14_NoDeadLegacyReference ==
    OcLegacyCompleted =>
        \A a \in ArtifactIds : \A url \in ArtifactRefs(artifacts[a]) : Live(url)

\* ---- the Cloudinary migrator

McRunning == job.script = "migrate-cloudinary" /\ job.execute

\* C15: the legacy copy of a URL is destroyed only after the rewritten
\* references of the artifact have been persisted: the database never refers
\* to a Cloudinary URL whose blob the running migrator has destroyed.
C15_DestroyedAfterPersist ==
    McRunning => \A url \in job.pre.cloud \ cloud : url \notin DbUrls

\* the artifacts that matched the filter when the run started, and those of
\* them the limit kept
McEligibleBefore ==
    SeqOfIds({a \in ArtifactIds : Len(CloudinaryUrlsOf(job.pre.artifacts[a])) > 0})

McWorkingSet == ApplyLimit(McEligibleBefore, job.limit)

\* the run has ended and its scan of the artifacts had succeeded
McEnded ==
    /\ McRunning
    /\ job.pc = "exited"
    /\ ~job.dbFailed

\* every Cloudinary URL of the artifact was uploaded and every update of the
\* database was applied
McFullySuccessful(result) ==
    /\ result.mapped = result.total
    /\ ~result.dbFailed

\* C16: an error while processing one artifact (a failed download or upload,
\* a malformed URL, a failed database update) is recorded in the result of
\* that artifact and does not abort the batch: every artifact of the working
\* set is processed.
C16_FailureIsolation ==
    McEnded =>
        /\ Len(job.results) = Len(McWorkingSet)
        /\ \A x \in 1..Len(job.results) :
              ~McFullySuccessful(job.results[x]) => Len(job.results[x].errors) > 0

\* C17: the summary counts an artifact as successful only if every one of its
\* legacy URLs was relocated and its rewritten references were persisted.
C17_SuccessMeansPersisted ==
    McRunning =>
        \A x \in 1..Len(job.results) :
            job.results[x].success => McFullySuccessful(job.results[x])

\* the user_media rows an artifact is linked to, in a database
McLinked(tables, a) ==
    {m \in tables.user_media :
        \E link \in tables.artifact_media : link.artifact_id = a /\ link.media_id = m.id}

\* the first artifact of the run has just been processed
McFirstProcessed ==
    /\ McRunning
    /\ job.pc = "artifact"
    /\ Len(job.results) = 1
    /\ job.n = 2
    /\ job.k = 1

\* C18: after the migrator has processed an artifact, either every Cloudinary
\* URL of the artifact has been replaced by an object-store URL in all of its
\* references, or none of its references has changed.
C18_AllOrNothing ==
    McFirstProcessed =>
        LET a == job.results[1].id
            now == [user_media |-> user_media, artifact_media |-> artifact_media]
            legacy == Range(CloudinaryUrlsOf(job.pre.artifacts[a]))
        IN  \/ \A url \in legacy :
                  /\ url \notin ArtifactRefs(artifacts[a])
                  /\ \A m \in McLinked(now, a) : m.public_url # url
            \/ /\ artifacts[a] = job.pre.artifacts[a]
               /\ McLinked(now, a) = McLinked(job.pre, a)

\* C19: a run with --migrate --limit=N processes exactly the first min(N, E)
\* of the E eligible artifacts and leaves every other eligible artifact
\* untouched: its row, the user_media rows it links to and its legacy blobs.
C19_LimitLeavesTheRestUntouched ==
    (McEnded /\ job.exit = 0 /\ job.limit >= 1) =>
        /\ [x \in 1..Len(job.results) |-> job.results[x].id] = McWorkingSet
        /\ \A a \in Range(McEligibleBefore) \ Range(McWorkingSet) :
              /\ artifacts[a] = job.pre.artifacts[a]
              /\ McLinked(job.pre, a) \subseteq user_media
              /\ \A url \in Range(CloudinaryUrlsOf(job.pre.artifacts[a])) :
                    url \in job.pre.cloud => url \in cloud

\* C20: an artifact whose legacy URLs were all migrated and persisted is not
\* in the working set of a later run of the migrator; and when a run without
\* an effective limit ends with every artifact migrated and persisted, the
\* eligibility filter matches no artifact.
C20_MigratedNotEligibleAgain ==
    job.script = "migrate-cloudinary" =>
        /\ \A x \in 1..Len(job.queue) : job.queue[x].id \notin job.done
        /\ \A a \in McMigrated : Len(CloudinaryUrlsOf(artifacts[a])) = 0
        /\ (/\ McEnded
            /\ job.exit = 0
            /\ Len(job.results) = Len(McEligibleBefore)
            /\ \A x \in 1..Len(job.results) : McFullySuccessful(job.results[x]))
               => Len(findArtifactsToMigrate) = 0

\* a second run that follows a run limited to one artifact: the first
\* artifact is not processed again, the second is migrated, and no artifact
\* is eligible afterwards
C20_Witness ==
    /\ McEnded
    /\ job.exit = 0
    /\ job.done # {}
    /\ Len(job.results) > 0
    /\ \A x \in 1..Len(job.results) :
          /\ McFullySuccessful(job.results[x])
          /\ job.results[x].id \notin job.done
    /\ Len(findArtifactsToMigrate) = 0

\* ---------------------------------------------- derivative backfill

BdRunning == job.script = "backfill-media-derivatives" /\ job.pre # NullUrl

\* C21: the derivative backfill never overwrites a stored triple: every URL
\* that has an entry in an artifact's media_derivatives before a backfill run
\* has the identical entry at every point of the run and after it.
C21_StoredTriplesKept ==
    BdRunning =>
        \A a \in ArtifactIds :
            LET before == job.pre.artifacts[a].media_derivatives.entries
                after == artifacts[a].media_derivatives.entries
            IN  \A url \in Keys(before) :
                    Has(after, url) /\ Get(after, url) = Get(before, url)

\* a finished backfill that added an entry next to a stored one
C21_Witness ==
    /\ BdRunning
    /\ job.pc = "exited"
    /\ job.execute
    /\ \E a \in ArtifactIds :
          /\ Len(job.pre.artifacts[a].media_derivatives.entries) > 0
          /\ Len(artifacts[a].media_derivatives.entries)
                > Len(job.pre.artifacts[a].media_derivatives.entries)
\* ------------------------------------------------------------ exit codes

\* C22: every batch script exits with code 1 when a scope-level fatal error
\* occurred (the database could not be queried) and with code 0 when it
\* completed, including when individual items failed.
C22_ExitCodes ==
    job.pc = "exited" => job.exit = (IF job.fatal THEN 1 ELSE 0)
\* ------------------------------------------- URLs of no known backend

\* neither an object-store URL nor a legacy-delivery URL
IsUnknownUrl(url) ==
    /\ url # NullUrl
    /\ ~isSupabaseStorageUrl(url)
    /\ ~isCloudinaryUrl(url)

\* the database and the stores as the current or the last call found them
CallPre == IF rg.pre # NullUrl THEN rg.pre ELSE job.pre

\* the URLs the database referred to when the call started
UrlsBefore ==
    UNION {ArtifactRefs(CallPre.artifacts[a]) : a \in ArtifactIds}
      \cup {m.public_url : m \in CallPre.user_media}

\* the URLs named by an error of the current or the last call
ErrorUrls ==
    {rg.errors[k][2] : k \in 1..Len(rg.errors)}
      \cup {job.errors[k][2] : k \in 1..Len(job.errors)}
      \cup (IF job.script # "migrate-cloudinary" THEN {}
            ELSE UNION {{job.results[x].errors[k][2] : k \in 1..Len(job.results[x].errors)} :
                          x \in 1..Len(job.results)})

\* C23: a URL that is neither an object-store URL nor a legacy-delivery URL is
\* passed through unchanged by reorganize, the Cloudinary migrator and the
\* derivative backfill: no blob operation is attempted for it, it is no key of
\* a URL mapping, no derivative triple is stored for it, every reference to it
\* is unchanged, and no error names it.
C23_UnknownPassedThrough ==
    CallPre # NullUrl =>
        \A url \in {u \in UrlsBefore : IsUnknownUrl(u)} :
            /\ \A a \in ArtifactIds :
                  /\ OccurrencesUnchanged(CallPre.artifacts[a], artifacts[a], url)
                  /\ url \notin JsonKeys(artifacts[a].media_derivatives)
            /\ \A m \in CallPre.user_media : m.public_url = url => m \in user_media
            /\ \A r \in relocations : r.url # url
            /\ ~Has(rg.urlMapping, url)
            /\ ~Has(job.urlMapping, url)
            /\ url \notin ErrorUrls

\* the Cloudinary migrator has migrated the thumbnail of an artifact whose
\* media_urls, captions and gallery hold an unknown URL, after a reorganize
\* that relocated a temporary blob of it
C23_Witness ==
    /\ job.script = "migrate-cloudinary"
    /\ job.pc = "exited"
    /\ \E x \in 1..Len(job.results) :
          job.results[x].id = "A1" /\ job.results[x].mapped > 0
    /\ \E r \in relocations : r.artifactId = "A1" /\ r.copy = "ok"
    /\ Ext \in Range(artifacts["A1"].media_urls)
    /\ Ext \in JsonKeys(artifacts["A1"].image_captions)
    /\ \E m \in LinkedMedia("A1") : m.public_url = Ext
    /\ ~isCloudinaryUrl(artifacts["A1"].thumbnail_url)
\* ------------------------------------------------ user_media backfill

\* C24: the user_media / artifact_media backfill is idempotent: a run on the
\* database that a completed run produced, with no change in between, raises
\* no error and creates no user_media row and no artifact_media row.
C24_BackfillIdempotent ==
    (job.script = "014_backfill_user_media" /\ job.prev # NullUrl) =>
        /\ user_media = job.pre.user_media
        /\ artifact_media = job.pre.artifact_media
        /\ job.pc = "exited" => job.exit = 0

\* the second run has ended, after a first run that created rows and links
C24_Witness ==
    /\ job.script = "014_backfill_user_media"
    /\ job.pc = "exited"
    /\ job.prev # NullUrl
    /\ job.prev.user_media # job.pre.user_media
    /\ job.prev.artifact_media # job.pre.artifact_media
    /\ \E a \in ArtifactIds : Len(artifacts[a].media_urls) = 2
\* ------------------------------------------------------- re-keying

\* every entry of the map before is in the map after under its renamed key,
\* and the map after has as many entries
EntriesKept(before, after, urlMapping) ==
    /\ Len(after.entries) = Len(before.entries)
    /\ \A k \in 1..Len(before.entries) :
          LET key == MapUrl(urlMapping, before.entries[k][1])
          IN  /\ Has(after.entries, key)
              /\ Get(after.entries, key) = before.entries[k][2]

\* C27: re-keying a JSON map during a rewrite never loses an entry: the
\* rewritten image_captions, video_summaries and audio_transcripts have as
\* many entries as the original and every original value is present under
\* its (possibly renamed) key, also when the new URL of a mapping is already
\* a key of the map.
C27_RekeyKeepsEntries ==
    (job.pc = "rewrite" /\ Len(job.results) >= 1)
        => /\ EntriesKept(job.pre.image_captions, job.results[1].image_captions,
                          job.urlMapping)
           /\ EntriesKept(job.pre.video_summaries, job.results[1].video_summaries,
                          job.urlMapping)
           /\ EntriesKept(job.pre.audio_transcripts, job.results[1].audio_transcripts,
                          job.urlMapping)
\* ------------------------------------------------- the URL mapping

\* the URLs the relocation loop has gone through
RgProcessed == {rg.allUrls[k] : k \in 1..(rg.i - 1)}

\* the URLs for which the loop recorded a failure
RgFailedUrls == {rg.errors[k][2] : k \in 1..Len(rg.errors)}

C30_OthersEventuallyMigrated ==
    <>(Len(CloudinaryUrlsOf(artifacts["A2"])) = 0)
\* -------------------------------------------- blobs shared by artifacts

\* the URL denoted an existing blob when the call started
RgLiveBefore(url) ==
    CASE isSupabaseStorageUrl(url) -> extractPathFromUrl(url) \in rg.pre.blobs
      [] isCloudinaryUrl(url) -> url \in rg.pre.cloud
      [] OTHER -> TRUE

\* C26: reorganizing artifact A never leaves another artifact B with a
\* reference to a blob that no longer exists: after a reorganize of A in
\* which every relocation and every update succeeded, every URL in B's
\* media_urls, JSON-map keys and thumbnail_url and every public_url of a
\* user_media row linked to B that denoted an existing blob before the call
\* still denotes one.
C26_OtherArtifactsKeepBlobs ==
    RgAllSucceeded =>
        \A b \in ArtifactIds \ {rg.artifactId} :
            \A url \in ArtifactRefs(artifacts[b]) \cup {m.public_url : m \in LinkedMedia(b)} :
                RgLiveBefore(url) => Live(url)
\* --------------------------------------------------- concurrent calls

\* the URLs the artifact refers to, in its row and through its links
AllRefs(a) == ArtifactRefs(artifacts[a]) \cup {m.public_url : m \in LinkedMedia(a)}

\* C25: two reorganize calls for the same artifact in progress at once, under
\* any interleaving of their reads, blob moves and database updates, leave
\* the artifact such that once both have returned every URL in its
\* media_urls, JSON-map keys, thumbnail_url and linked user_media rows
\* denotes an existing blob.
C25_ConcurrentReorganizeSafe ==
    (rg.pc = "done" /\ job.pc = "done") => \A url \in AllRefs(RaceArtifact) : Live(url)
\* C29: when the image-caption analysis of an artifact and a reorganize of
\* the same artifact are in progress at once, under any interleaving, then
\* after both have completed every key of image_captions is a URL that is
\* in media_urls; no caption stays keyed by a pre-relocation URL.
C29_CaptionKeysCurrent ==
    (rg.pc = "done" /\ job.pc = "returned")
        => JsonKeys(artifacts[RaceArtifact].image_captions)
               \subseteq Range(artifacts[RaceArtifact].media_urls)
====
